---- MODULE Spec2Model ----
(***************************************************************************)
(* Adventure-game engine: level construction (structural validation and   *)
(* the breadth-first solver), the session state machine driven by         *)
(* GameController, and the GameState serialization used at the            *)
(* persistence boundary.                                                   *)
(*                                                                         *)
(* Encodings.  Python None for an item is NoItem, for a message is the    *)
(* empty tuple NoMessage; a dict whose keys are directions is a function  *)
(* over directions that maps an absent key to NoExit; formatted strings   *)
(* are tuples of their parts (<<"Moved", direction, room>>); a datetime   *)
(* is a record [sec, usec] and its ISO-8601 text a tuple of its printed   *)
(* parts.                                                                  *)
(***************************************************************************)
EXTENDS Integers, Sequences, FiniteSets, TLC

VARIABLES
    defn,       \* the level definition handed to LevelFactory.from_definition
    pc,         \* position: "new", "solving", "ready", "rejected", "playing"
    error,      \* exception raised by from_definition ("" when none)
    queue,      \* compute_optimal_moves: the BFS deque
    visited,    \* compute_optimal_moves: the visited set
    explored,   \* compute_optimal_moves: explored_states
    levels,     \* the level repository: the Level objects built so far
    state,      \* the GameState of the session
    saves,      \* the game_saves collection (active saves)
    history,    \* the game_results collection, in insertion order
    clock,      \* number of datetime.now() calls made so far
    call,       \* the most recent call and how it ended
    returned,   \* what that call returned, when it was a query
    docs,       \* the levels collection a MongoLevelRepository reads
    builds,     \* number of LevelFactory.from_definition runs, per level id
    cursor,     \* the documents a running list() has still to yield
    objects,    \* which from_definition run made the Level cached per id
    memory,     \* InMemorySaveRepository._saves: user_email to GameSave
    store,      \* the browser's store-game data
    requests    \* the move_player requests in flight

repoVars == <<docs, cursor, objects, memory>>
webVars == <<store, requests>>

vars == <<defn, pc, error, queue, visited, explored, levels, state, saves,
          history, clock, call, returned, docs, builds, cursor, objects,
          memory, store, requests>>

--------------------------------------------------------------------------
(* Bounds *)

MaxMoves == 3
TicksPerSec == 3

--------------------------------------------------------------------------
(* Encodings of Python values *)

NoItem == [type |-> "none", name |-> "none"]
NoMessage == << >>
NoExit == "-"
Dirs == {"north", "south"}
DirOrder == <<"north", "south", "east", "west">>
User == "a@test.com"

Max(a, b) == IF a >= b THEN a ELSE b
Min(a, b) == IF a <= b THEN a ELSE b

\* datetime.now(timezone.utc) at the c-th reading of the clock
Now(c) == [sec |-> c \div TicksPerSec,
           usec |-> (c % TicksPerSec) * (1000000 \div TicksPerSec)]

--------------------------------------------------------------------------
(* Level definitions: the documents from_definition is given.  The rooms  *)
(* and exits are the maps below, written out; the item of every room,     *)
(* the required items and the start room range over all combinations.     *)

Ex(n, s) == [north |-> n, south |-> s]

Maps ==
    { \* a corridor, walkable both ways
      [A |-> Ex("B", NoExit), B |-> Ex("C", "A"), C |-> Ex(NoExit, "B")],
      \* a one-way corridor
      [A |-> Ex("B", NoExit), B |-> Ex("C", NoExit), C |-> Ex(NoExit, NoExit)],
      \* a hub with two dead-end arms that lead back
      [A |-> Ex("B", "C"), B |-> Ex(NoExit, "A"), C |-> Ex("A", NoExit)],
      \* a cycle with a self-loop
      [A |-> Ex("B", "A"), B |-> Ex("C", NoExit), C |-> Ex("A", NoExit)],
      \* a start room without exits
      [A |-> Ex(NoExit, NoExit), B |-> Ex("C", "A"), C |-> Ex("B", "A")],
      \* an exit that leads to no room of the level
      [A |-> Ex("B", "C"), B |-> Ex("Nowhere", "A"), C |-> Ex("A", NoExit)],
      \* four rooms: a hub, two arms, and a room behind one arm
      [A |-> Ex("B", "C"), B |-> Ex("D", "A"), C |-> Ex("A", NoExit),
       D |-> Ex(NoExit, "B")] }

ItemDefs ==
    { NoItem,
      [type |-> "relic", name |-> "r1"],
      [type |-> "relic", name |-> "r2"],
      [type |-> "villain", name |-> "Villain"],
      [type |-> "potion", name |-> "p"] }

\* Item assignments: every room holds one of the item definitions it may
\* hold.  The two relics are interchangeable, so r2 is tried in rooms B, C
\* and D only; a potion (an item kind the factory does not know) is tried
\* in room A only, and room D holds r2, the villain or nothing.
MayHold(r) ==
    CASE r = "A" -> ItemDefs \ {[type |-> "relic", name |-> "r2"]}
      [] r = "D" -> {NoItem, [type |-> "relic", name |-> "r2"],
                     [type |-> "villain", name |-> "Villain"]}
      [] OTHER -> ItemDefs \ {[type |-> "potion", name |-> "p"]}

ItemsOf(m) ==
    { f \in [DOMAIN m -> ItemDefs] : \A r \in DOMAIN m : f[r] \in MayHold(r) }

RequiredSets == {{}, {"r1"}, {"r1", "r2"}, {"Villain"}}

DifficultyOf(m) ==
    IF "D" \in DOMAIN m THEN "hard"
    ELSE IF m["A"].south = NoExit THEN "easy" ELSE "medium"

RoomDefs(m, f) == [r \in DOMAIN m |-> [exits |-> m[r], item |-> f[r]]]

Coord(r) ==
    CASE r = "A" -> <<0, 0>> [] r = "B" -> <<1, 0>>
      [] r = "C" -> <<0, 1>> [] OTHER -> <<1, 1>>

StartRooms == {"A", "B", "Nowhere"}

Definitions ==
    UNION { { [id |-> "level_1", name |-> "Level One",
               difficulty |-> DifficultyOf(m), start_room |-> st,
               rooms |-> RoomDefs(m, f),
               coords |-> [r \in DOMAIN m |-> Coord(r)],
               rules |-> [required_items |-> req]] :
                f \in ItemsOf(m),
                req \in RequiredSets,
                st \in {x \in StartRooms : x = "Nowhere" => m["A"].south = NoExit} } :
            m \in Maps }

\* The seeded easy level (levels/seed_levels.py, first entry of LEVELS)
SeedExits(n, s, e, w) == [north |-> n, south |-> s, east |-> e, west |-> w]
Stone(colour) == [type |-> "relic", name |-> colour]

SeedRooms ==
    ("Space Room" :>
        [exits |-> SeedExits(NoExit, "Reality Room", "Avengers Campus", NoExit),
         item |-> Stone("Blue Stone")])
    @@ ("Avengers Campus" :>
        [exits |-> SeedExits(NoExit, "Power Room", "Mind Room", "Space Room"),
         item |-> NoItem])
    @@ ("Mind Room" :>
        [exits |-> SeedExits(NoExit, "Time Room", NoExit, "Avengers Campus"),
         item |-> Stone("Yellow Stone")])
    @@ ("Reality Room" :>
        [exits |-> SeedExits("Space Room", "Soul Room", "Power Room", NoExit),
         item |-> Stone("Red Stone")])
    @@ ("Power Room" :>
        [exits |-> SeedExits("Avengers Campus", NoExit, "Time Room", "Reality Room"),
         item |-> Stone("Purple Stone")])
    @@ ("Time Room" :>
        [exits |-> SeedExits("Mind Room", "Avengers Compound", NoExit, "Power Room"),
         item |-> Stone("Green Stone")])
    @@ ("Soul Room" :>
        [exits |-> SeedExits("Reality Room", NoExit, NoExit, NoExit),
         item |-> Stone("Orange Stone")])
    @@ ("Avengers Compound" :>
        [exits |-> SeedExits("Time Room", NoExit, NoExit, NoExit),
         item |-> [type |-> "villain", name |-> "Villain"]])

SeedCoords ==
    ("Space Room" :> <<1, 0>>) @@ ("Avengers Campus" :> <<2, 0>>)
    @@ ("Mind Room" :> <<3, 0>>) @@ ("Reality Room" :> <<1, 1>>)
    @@ ("Power Room" :> <<2, 1>>) @@ ("Time Room" :> <<3, 1>>)
    @@ ("Soul Room" :> <<1, 2>>) @@ ("Avengers Compound" :> <<3, 2>>)

level_easy ==
    [id |-> "level_easy", name |-> "Relic Rush - Easy", difficulty |-> "easy",
     start_room |-> "Avengers Campus", rooms |-> SeedRooms, coords |-> SeedCoords,
     rules |-> [required_items |->
                  {"Blue Stone", "Yellow Stone", "Red Stone", "Purple Stone",
                   "Green Stone", "Orange Stone"}],
     version |-> 1]

\* Documents that are not complete level definitions: a definition of the
\* family with one top-level key deleted, with the coordinate entry of one
\* room deleted, or with a difficulty the Difficulty enum does not have.
Without(f, k) == [x \in DOMAIN f \ {k} |-> f[x]]

BaseDefinition ==
    [id |-> "level_1", name |-> "Level One", difficulty |-> "easy",
     start_room |-> "A",
     rooms |-> RoomDefs([A |-> Ex("B", NoExit), B |-> Ex("C", "A"),
                         C |-> Ex(NoExit, "B")],
                        [A |-> NoItem, B |-> [type |-> "relic", name |-> "r1"],
                         C |-> [type |-> "villain", name |-> "Villain"]]),
     coords |-> [r \in {"A", "B", "C"} |-> Coord(r)],
     rules |-> [required_items |-> {"r1"}]]

Incomplete ==
    {Without(BaseDefinition, k) : k \in DOMAIN BaseDefinition}
      \cup {[BaseDefinition EXCEPT !.coords = Without(@, r)] :
                r \in DOMAIN BaseDefinition.rooms}
      \cup {[BaseDefinition EXCEPT !.difficulty = "nightmare"]}

--------------------------------------------------------------------------
(* models/behavior/validation.py: validate_level_definition *)

required_keys ==
    {"id", "name", "difficulty", "start_room", "rooms", "coords", "rules"}

\* The villain rooms of a definition: r.get("item") and type == "villain"
villains(d) ==
    { r \in DOMAIN d.rooms :
        d.rooms[r].item # NoItem /\ d.rooms[r].item.type = "villain" }

\* Variant: validation without the exit check
validate_skips_exits(d) ==
    /\ required_keys \ DOMAIN d = {}
    /\ d.start_room \in DOMAIN d.rooms
    /\ \A room \in DOMAIN d.rooms : room \in DOMAIN d.coords
    /\ Cardinality(villains(d)) = 1

\* Variant: validation without the villain count
validate_any_villains(d) ==
    /\ required_keys \ DOMAIN d = {}
    /\ d.start_room \in DOMAIN d.rooms
    /\ \A room \in DOMAIN d.rooms : \A direction \in DOMAIN d.rooms[room].exits :
          LET target == d.rooms[room].exits[direction]
          IN  target # NoExit => target \in DOMAIN d.rooms
    /\ \A room \in DOMAIN d.rooms : room \in DOMAIN d.coords

\* TRUE iff validate_level_definition returns without raising
validate_level_definition(d) ==
    /\ required_keys \ DOMAIN d = {}
    /\ d.start_room \in DOMAIN d.rooms
    /\ \A room \in DOMAIN d.rooms : \A direction \in DOMAIN d.rooms[room].exits :
          LET target == d.rooms[room].exits[direction]
          IN  target # NoExit => target \in DOMAIN d.rooms
    /\ \A room \in DOMAIN d.rooms : room \in DOMAIN d.coords
    /\ Cardinality(villains(d)) = 1

--------------------------------------------------------------------------
(* models/domain/item.py, room.py, map_graph.py; the room and map part of  *)
(* models/behavior/level_factory.py                                        *)

Relic(name) == [kind |-> "Relic", name |-> name, render_key |-> "relic"]
Villain(name) == [kind |-> "Villain", name |-> name, render_key |-> "villain"]
NoneItem == [kind |-> "None", name |-> "none", render_key |-> "empty"]

KnownItemTypes == {"relic", "villain"}

\* Variant: no item kind is refused
UnknownItemType_never(d) == FALSE

\* TRUE iff the match statement of from_definition raises ValueError
UnknownItemType(d) ==
    \E r \in DOMAIN d.rooms :
        d.rooms[r].item # NoItem /\ d.rooms[r].item.type \notin KnownItemTypes

MakeItem(item_def) ==
    IF item_def = NoItem THEN NoneItem
    ELSE IF item_def.type = "relic" THEN Relic(item_def.name)
    ELSE Villain(item_def.name)

MakeRooms(d) ==
    [r \in DOMAIN d.rooms |->
        [name |-> r, exits |-> d.rooms[r].exits, item |-> MakeItem(d.rooms[r].item)]]

MapGraph(d) == [rooms |-> MakeRooms(d), coords |-> d.coords]

\* MapGraph.neighbors: the targets of a room's exits, in dict order
neighbors(map_graph, room) ==
    LET exits == map_graph.rooms[room].exits
        keys == SelectSeq(DirOrder,
                          LAMBDA x : x \in DOMAIN exits /\ exits[x] # NoExit)
    IN  [i \in 1..Len(keys) |-> exits[keys[i]]]

--------------------------------------------------------------------------
(* models/domain/difficulty.py and the Level assembled by from_definition *)

Difficulties == {"easy", "medium", "hard"}

visibility_policy(difficulty) ==
    CASE difficulty = "easy" -> "EasyVisibility"
      [] difficulty = "medium" -> "MediumVisibility"
      [] difficulty = "hard" -> "HardVisibility"

scoring_strategy(difficulty) ==
    CASE difficulty = "easy" -> "StandardScore"
      [] difficulty = "medium" -> "StandardScore"
      [] difficulty = "hard" -> "MaxMovesScore"

Level(d, optimal_moves) ==
    [id |-> d.id, name |-> d.name, difficulty |-> d.difficulty,
     start_room |-> d.start_room, map |-> MapGraph(d),
     rules |-> [required_items |-> d.rules.required_items],
     visibility |-> visibility_policy(d.difficulty),
     scoring |-> scoring_strategy(d.difficulty),
     optimal_moves |-> optimal_moves]

--------------------------------------------------------------------------
(* models/behavior/visibility.py and Level.ui_projection *)

LevelUIProjection(show_full_map, show_items, show_villain, discovered_rooms) ==
    [show_full_map |-> show_full_map, show_items |-> show_items,
     show_villain |-> show_villain, discovered_rooms |-> discovered_rooms]

can_render_room(visibility, room_name) ==
    visibility.show_full_map \/ room_name \in visibility.discovered_rooms

EasyVisibility_project(level, s) ==
    LevelUIProjection(TRUE, TRUE, TRUE, DOMAIN level.map.rooms)

MediumVisibility_project(level, s) ==
    LevelUIProjection(TRUE, FALSE, TRUE, DOMAIN level.map.rooms)

\* Variant: fog of war that uncovers the whole map
HardVisibility_full_map(level, s) ==
    LevelUIProjection(TRUE, FALSE, FALSE,
                      s.visited_rooms \cup {s.player.location})

HardVisibility_project(level, s) ==
    LevelUIProjection(FALSE, FALSE, FALSE,
                      s.visited_rooms \cup {s.player.location})

\* level.visibility.project(level, state)
project(level, s) ==
    CASE level.visibility = "EasyVisibility" -> EasyVisibility_project(level, s)
      [] level.visibility = "MediumVisibility" -> MediumVisibility_project(level, s)
      [] level.visibility = "HardVisibility" -> HardVisibility_project(level, s)

\* Variant: items rendered whatever the policy's flags say
render_unmasked(level, s, visibility, room_name) ==
    LET room == level.map.rooms[room_name]
    IN  IF ~can_render_room(visibility, room_name) THEN "hidden"
        ELSE IF room_name = s.player.location THEN "player"
        ELSE IF room.item # NoneItem /\ room.item.name \notin s.collected_items
        THEN room.item.render_key
        ELSE "empty"

\* the "render" entry of one room (level.py 94-131)
render(level, s, visibility, room_name) ==
    LET room == level.map.rooms[room_name]
    IN  IF ~can_render_room(visibility, room_name) THEN "hidden"
        ELSE IF room_name = s.player.location THEN "player"
        ELSE IF room.item # NoneItem
        THEN IF room.item.render_key = "villain"
             THEN IF visibility.show_villain THEN "villain" ELSE "empty"
             ELSE IF room.item.render_key = "relic"
             THEN IF visibility.show_items /\ room.item.name \notin s.collected_items
                  THEN "relic" ELSE "empty"
             ELSE "empty"
        ELSE "empty"

\* max(0, ...) over one coordinate of the rooms
max_coord(level, i) ==
    LET S == {0} \cup {level.map.coords[r][i] : r \in DOMAIN level.map.rooms}
    IN  CHOOSE x \in S : \A y \in S : y <= x

ui_projection(level, s) ==
    LET visibility == project(level, s)
    IN  [player_room |-> s.player.location,
         grid |-> [width |-> max_coord(level, 1) + 1,
                   height |-> max_coord(level, 2) + 1],
         rooms |-> [room_name \in DOMAIN level.map.rooms |->
                      [x |-> level.map.coords[room_name][1],
                       y |-> level.map.coords[room_name][2],
                       render |-> render(level, s, visibility, room_name)]]]


--------------------------------------------------------------------------
(* models/behavior/validation.py: compute_optimal_moves, one iteration of *)
(* its while loop per step                                                 *)

\* Variant: entering any room yields every required item
Pickup_everything(map_graph, room, items, required_items) == required_items

\* Variant: the item of a room is picked up whether it is required or not
Pickup_unfiltered(map_graph, room, items, required_items) ==
    LET room_item == map_graph.rooms[room].item
    IN  IF room_item # NoneItem /\ room_item.name \notin items
        THEN items \cup {room_item.name}
        ELSE items

\* The item set after the pickup at a room (lines 175-181)
Pickup(map_graph, room, items, required_items) ==
    LET room_item == map_graph.rooms[room].item
    IN  IF /\ room_item # NoneItem
           /\ room_item.name \in required_items
           /\ room_item.name \notin items
        THEN items \cup {room_item.name}
        ELSE items

IsVillainRoom(map_graph, room) ==
    LET room_item == map_graph.rooms[room].item
    IN  room_item # NoneItem /\ room_item.render_key = "villain"

\* Variant: neighbours enqueued at the distance of the room they are reached from
Expand_same_distance(map_graph, room, items, dist) ==
    LET nb == neighbors(map_graph, room)
    IN  [i \in 1..Len(nb) |-> <<nb[i], items, dist>>]

\* The entries the loop body appends to the queue (lines 217-218)
Expand(map_graph, room, items, dist) ==
    LET nb == neighbors(map_graph, room)
    IN  [i \in 1..Len(nb) |-> <<nb[i], items, dist + 1>>]

\* A popleft that leaves the entry at the head of the queue
PopLeft_keeps(q) == q

\* queue.popleft()
PopLeft(q) == Tail(q)

--------------------------------------------------------------------------
(* models/domain/status.py, game_state.py *)

IN_PROGRESS == "IN_PROGRESS"
COMPLETED == "COMPLETED"
GAME_OVER == "GAME_OVER"
GameStatus == {IN_PROGRESS, COMPLETED, GAME_OVER}

\* Variant: only a win counts as terminal
is_terminal_completed_only(status) == status = COMPLETED

is_terminal(status) == status \in {COMPLETED, GAME_OVER}

\* GameState.start; c is the number of clock readings made before the call.
\* The two timestamp defaults read the clock one after the other.
GameState_start(level_id, start_room, c) ==
    [level_id |-> level_id,
     player |-> [location |-> start_room],
     visited_rooms |-> {start_room},
     collected_items |-> {},
     move_count |-> 0,
     status |-> IN_PROGRESS,
     message |-> NoMessage,
     event_log |-> << >>,
     started_at |-> Now(c),
     updated_at |-> Now(c + 1),
     encountered_villain |-> FALSE]

\* Variant: a visit that records nothing
visit_forgets(s, room_name) == s

\* GameState.visit
visit(s, room_name) ==
    [s EXCEPT !.visited_rooms = @ \cup {room_name}]

\* The GameState variable before any session is started
NoState == GameState_start("", "", 0)

--------------------------------------------------------------------------
(* models/domain/item.py: on_enter; models/domain/rules.py: check *)

\* Variant: a relic collected again on every entry
Relic_on_enter_again(item, s) ==
    [s EXCEPT !.collected_items = @ \cup {item.name},
              !.event_log = Append(@, <<"Collected", item.name>>),
              !.message = <<"Collected", item.name>>]

Relic_on_enter(item, s) ==
    IF item.name \in s.collected_items THEN s
    ELSE [s EXCEPT !.collected_items = @ \cup {item.name},
                   !.event_log = Append(@, <<"Collected", item.name>>),
                   !.message = <<"Collected", item.name>>]

\* Variant: a villain whose room is entered without the flag being set
Villain_on_enter_unflagged(item, s) == s

Villain_on_enter(item, s) ==
    IF s.encountered_villain THEN s
    ELSE [s EXCEPT !.encountered_villain = TRUE,
                   !.event_log = Append(@, <<"Encountered the villain">>)]

\* Polymorphic dispatch of item.on_enter(state)
on_enter(item, s) ==
    CASE item.kind = "Relic" -> Relic_on_enter(item, s)
      [] item.kind = "Villain" -> Villain_on_enter(item, s)
      [] OTHER -> s

\* Variant: the superset test written the wrong way round
check_subset(required_items, s, room) ==
    IF room.item.kind = "Villain"
    THEN IF s.collected_items \subseteq required_items
         THEN [s EXCEPT !.status = COMPLETED,
                        !.message = <<"You defeated the villain!">>]
         ELSE [s EXCEPT !.status = GAME_OVER,
                        !.message = <<"You found the villain too soon.">>]
    ELSE s

\* StandardRules.check
check(required_items, s, room) ==
    IF room.item.kind = "Villain"
    THEN IF required_items \subseteq s.collected_items
         THEN [s EXCEPT !.status = COMPLETED,
                        !.message = <<"You defeated the villain!">>]
         ELSE [s EXCEPT !.status = GAME_OVER,
                        !.message = <<"You found the villain too soon.">>]
    ELSE s

--------------------------------------------------------------------------
(* models/domain/scoring.py, models/behavior/scoring_policy.py.  The float *)
(* products are written as exact integer quotients; the multipliers 0.75,  *)
(* 1.0 and 1.25 are the quarters 3/4, 4/4 and 5/4.                         *)

\* Level.optimal_moves when no optimum was given (None)
NoOptimum == -1

\* "not level.optimal_moves": true of None and of 0
not_optimal_moves(level) == level.optimal_moves \in {NoOptimum, 0}

WIN_BASE == 1000
MAX_PROGRESS_SCORE == 500
MAX_EFFICIENCY_SCORE == 1000

\* Variant: the multipliers in the opposite order
multiplier_reversed(difficulty) ==
    CASE difficulty = "easy" -> 5
      [] difficulty = "medium" -> 4
      [] difficulty = "hard" -> 3

\* ScoringPolicy.multiplier, in quarters
multiplier(difficulty) ==
    CASE difficulty = "easy" -> 3
      [] difficulty = "medium" -> 4
      [] difficulty = "hard" -> 5

progress_score(s, level) ==
    LET collected == Cardinality(s.collected_items)
        total_required == Cardinality(level.rules.required_items)
    IN  IF total_required # 0
        THEN (MAX_PROGRESS_SCORE * collected) \div total_required
        ELSE 0

\* Variant: the efficiency ratio without its cap at 1.0
efficiency_uncapped(s, level) ==
    IF not_optimal_moves(level) \/ s.move_count <= 0
    THEN MAX_EFFICIENCY_SCORE
    ELSE (MAX_EFFICIENCY_SCORE * level.optimal_moves) \div s.move_count

\* Variant: no efficiency without a usable optimum or move count
efficiency_no_default(s, level) ==
    IF not_optimal_moves(level) \/ s.move_count <= 0
    THEN 0
    ELSE Min((MAX_EFFICIENCY_SCORE * level.optimal_moves) \div s.move_count,
             MAX_EFFICIENCY_SCORE)

efficiency_score(s, level) ==
    IF not_optimal_moves(level) \/ s.move_count <= 0
    THEN MAX_EFFICIENCY_SCORE
    ELSE Min((MAX_EFFICIENCY_SCORE * level.optimal_moves) \div s.move_count,
             MAX_EFFICIENCY_SCORE)

\* Variant: the win bonus and the efficiency term for every status
StandardScore_always_bonus(s, level) ==
    WIN_BASE + progress_score(s, level)
    + (efficiency_score(s, level) * multiplier(level.difficulty)) \div 4

StandardScore_calculate(s, level) ==
    IF s.status # COMPLETED THEN progress_score(s, level)
    ELSE WIN_BASE + progress_score(s, level)
         + (efficiency_score(s, level) * multiplier(level.difficulty)) \div 4

(* The penalty is computed in IEEE-754 doubles:
     penalty_ratio = min(overage / optimal_moves, 1.0)
     penalty = int(base_score * penalty_ratio * 0.5)
   For 0 < n < d the quotient n / d is rounded to 53 significant bits,
   q = M / 2^(53 + j) with n / d in [2^-(j+1), 2^-j); it lies below n / d by
   rho / (d * 2^(53 + j)), rho = (n * 2^(53 + j)) mod d, when 0 < 2 * rho < d,
   and is exact or above otherwise.  The product a * q is rounded once more.
   Where a * n / d is not an integer the error is far too small to move the
   truncation; where it is an integer K, the rounded product is below K
   exactly when a * q lies below the midpoint between K and the double
   before K, that is when a * rho > d * 2^(e + j) for 2^e < K < 2^(e+1)
   (and 2 * a * rho > d * 2^(e + j) for K = 2^e; a tie rounds to K, whose
   significand is even).  The multiplication by 0.5 is exact. *)
RECURSIVE pow2mod(_, _)
pow2mod(k, d) == IF k = 0 THEN 1 % d ELSE (2 * pow2mod(k - 1, d)) % d

\* the j with n / d in [2^-(j+1), 2^-j), for 0 < n < d
binade(n, d) == CHOOSE j \in 0..30 : n * 2^j < d /\ d <= n * 2^(j + 1)

\* the e with 2^e <= K < 2^(e+1), for K >= 1
ilog2(K) == CHOOSE e \in 0..30 : 2^e <= K /\ K < 2^(e + 1)

\* the double a * (n / d) is below the integer a * n / d, for 0 < n < d
product_rounds_below(a, n, d) ==
    /\ a > 0
    /\ (a * n) % d = 0
    /\ LET K == (a * n) \div d
           j == binade(n, d)
           rho == (n * pow2mod(53 + j, d)) % d
           e == ilog2(K)
       IN  /\ rho # 0
           /\ 2 * rho < d
           /\ (IF K = 2^e THEN 2 ELSE 1) * a * rho > d * 2^(e + j)

\* int(base_score * penalty_ratio * 0.5)
penalty_of(base_score, overage, optimal_moves) ==
    IF overage >= optimal_moves THEN base_score \div 2
    ELSE IF product_rounds_below(base_score, overage, optimal_moves)
         THEN ((base_score * overage) \div optimal_moves - 1) \div 2
         ELSE (base_score * overage) \div (2 * optimal_moves)

MaxMovesScore_calculate(s, level) ==
    LET base_score == StandardScore_calculate(s, level)
        overage == s.move_count - level.optimal_moves
    IN  IF s.status # COMPLETED THEN base_score
        ELSE IF not_optimal_moves(level) THEN base_score
        ELSE IF s.move_count <= level.optimal_moves THEN base_score
        ELSE Max(base_score
                 - penalty_of(base_score, overage, level.optimal_moves), 0)

\* level.scoring.calculate(state, level)
calculate(s, level) ==
    IF level.scoring = "MaxMovesScore" THEN MaxMovesScore_calculate(s, level)
    ELSE StandardScore_calculate(s, level)

--------------------------------------------------------------------------
(* models/records/serialization.py *)

Range(q) == {q[i] : i \in DOMAIN q}

\* list(a_set): the elements once each, in an order the program does not fix
Lists(S) == {q \in [1..Cardinality(S) -> S] : Range(q) = S}

\* GameStatus.value and GameStatus(value)
StatusValue(status) ==
    CASE status = IN_PROGRESS -> "in_progress"
      [] status = COMPLETED -> "completed"
      [] status = GAME_OVER -> "game_over"

StatusOfValue(v) == CHOOSE st \in GameStatus : StatusValue(st) = v

\* Variant: a timestamp printed to the second
isoformat_seconds(dt) == <<dt.sec>>

\* datetime.isoformat(): the fraction is printed only when it is not zero
isoformat(dt) ==
    IF dt.usec = 0 THEN <<dt.sec>> ELSE <<dt.sec, dt.usec>>

\* datetime.fromisoformat()
fromisoformat(text) ==
    IF Len(text) = 1 THEN [sec |-> text[1], usec |-> 0]
    ELSE [sec |-> text[1], usec |-> text[2]]

\* gamestate_to_dict; visited and collected are the two list(...) results
gamestate_to_dict(s, visited_list, collected_list) ==
    [level_id |-> s.level_id,
     player |-> [location |-> s.player.location],
     visited_rooms |-> visited_list,
     collected_items |-> collected_list,
     move_count |-> s.move_count,
     status |-> StatusValue(s.status),
     message |-> s.message,
     event_log |-> s.event_log,
     encountered_villain |-> s.encountered_villain,
     started_at |-> isoformat(s.started_at),
     updated_at |-> isoformat(s.updated_at)]

gamestate_from_dict(data) ==
    LET restored ==
            [level_id |-> data.level_id,
             player |-> [location |-> data.player.location],
             visited_rooms |-> Range(data.visited_rooms),
             collected_items |-> Range(data.collected_items),
             move_count |-> data.move_count,
             status |-> StatusOfValue(data.status),
             message |-> data.message,
             event_log |-> data.event_log,
             started_at |-> fromisoformat(data.started_at),
             updated_at |-> fromisoformat(data.updated_at),
             encountered_villain |-> data.encountered_villain]
    IN  [restored EXCEPT !.visited_rooms = @ \cup {restored.player.location}]

--------------------------------------------------------------------------
(* models/repositories/save_repo.py (MongoSaveRepository, the repository   *)
(* app.py and the tests wire in) and level_repo.py                         *)

Matching(col, user_email) == {doc \in col : doc.user_email = user_email}

\* collection.find_one: a set with the found document, or the empty set
find_one(col, user_email) ==
    IF Matching(col, user_email) = {} THEN {}
    ELSE {CHOOSE doc \in Matching(col, user_email) : TRUE}

\* Variant: an upsert that inserts without looking for the user's document
upsert_active_insert(col, user_email, level_id, state_dict, created_at, now) ==
    col \cup {[user_email |-> user_email, level_id |-> level_id,
               state |-> state_dict, updated_at |-> now,
               created_at |-> created_at]}

\* MongoSaveRepository.upsert_active; state_dict is gamestate_to_dict(state),
\* created_at the GameSave's default, now the clock reading of the update
upsert_active(col, user_email, level_id, state_dict, created_at, now) ==
    LET found == find_one(col, user_email)
        doc == [user_email |-> user_email,
                level_id |-> level_id,
                state |-> state_dict,
                updated_at |-> now,
                created_at |-> IF found = {} THEN created_at
                               ELSE (CHOOSE d \in found : TRUE).created_at]
    IN  (col \ found) \cup {doc}

\* Variant: a delete that removes nothing
delete_active_nothing(col, user_email) == col

\* MongoSaveRepository.delete_active
delete_active(col, user_email) == col \ find_one(col, user_email)

\* MongoSaveRepository.get_active: the restored GameSave, or the empty set
get_active(col, user_email) ==
    { [user_email |-> doc.user_email, level_id |-> doc.level_id,
       state |-> gamestate_from_dict(doc.state),
       created_at |-> doc.created_at, updated_at |-> doc.updated_at] :
        doc \in find_one(col, user_email) }

\* A variant of get that falls back to a stored level for an unknown id
get_substitutes(level_id) ==
    IF {l \in levels : l.id = level_id} = {} THEN levels
    ELSE {l \in levels : l.id = level_id}

\* LevelRepository.get: the level with that id, or the empty set
get(level_id) == {l \in levels : l.id = level_id}

LevelIds == {"level_1", "not_real"}

--------------------------------------------------------------------------
(* controllers/game.py: GameController.move up to the rules check         *)
(* (lines 182-244), as a function of the state, the resolved level and    *)
(* the direction.  raised names the exception that ends the call early.   *)

Outcome(s, raised, branch) == [state |-> s, raised |-> raised, branch |-> branch]

move_terminal(s) ==
    Outcome([s EXCEPT !.message = <<"Game already ended.">>], "", "terminal")

\* Variant: a blocked move that costs no move
move_blocked_free(s) ==
    [state |-> [s EXCEPT !.message = <<"You bumped into a wall.">>,
                         !.event_log = Append(@, <<"Bumped into a wall">>)],
     raised |-> "", branch |-> "blocked"]

\* Variant: a blocked move that leaves no event
move_blocked_silent(s) ==
    [state |-> [s EXCEPT !.move_count = @ + 1,
                         !.message = <<"You bumped into a wall.">>],
     raised |-> "", branch |-> "blocked"]

move_blocked(s) ==
    Outcome([s EXCEPT !.move_count = @ + 1,
                      !.message = <<"You bumped into a wall.">>,
                      !.event_log = Append(@, <<"Bumped into a wall">>)],
            "", "blocked")

\* Variant: a move that leaves the previous message in place
move_step_stale(s, direction, next_room) ==
    [visit([s EXCEPT !.player.location = next_room, !.move_count = @ + 1],
           next_room)
        EXCEPT !.event_log = Append(@, <<"Moved", direction, next_room>>)]

\* lines 222-226
move_step(s, direction, next_room) ==
    [visit([s EXCEPT !.player.location = next_room, !.move_count = @ + 1],
           next_room)
        EXCEPT !.event_log = Append(@, <<"Moved", direction, next_room>>),
               !.message = NoMessage]

\* lines 228-244
move_enter(s, level, next_room) ==
    LET entered_room == level.map.rooms[next_room]
        after_item == IF entered_room.item # NoneItem
                      THEN on_enter(entered_room.item, s)
                      ELSE s
    IN  check(level.rules.required_items, after_item, entered_room)

move_in_level(s, level, direction) ==
    IF s.player.location \notin DOMAIN level.map.rooms
    THEN Outcome(s, "KeyError", "raised")
    ELSE LET room == level.map.rooms[s.player.location]
         IN  IF room.exits[direction] = NoExit
             THEN move_blocked(s)
             ELSE LET next_room == room.exits[direction]
                      moved == move_step(s, direction, next_room)
                  IN  IF next_room \notin DOMAIN level.map.rooms
                      THEN Outcome(moved, "KeyError", "raised")
                      ELSE Outcome(move_enter(moved, level, next_room), "", "moved")

--------------------------------------------------------------------------
(* controllers/game.py: persistence helpers.  Each takes the number c of   *)
(* clock readings made so far and yields the saved state, the collection   *)
(* and the new number of readings.                                         *)

\* Variant: the state is saved as it was before updated_at was set
autosave_unstamped(user_email, level_id, s, c, visited_list, collected_list) ==
    [state |-> [s EXCEPT !.updated_at = Now(c)],
     saves |-> upsert_active(saves, user_email, level_id,
                   gamestate_to_dict(s, visited_list, collected_list),
                   Now(c + 1), Now(c + 3)),
     clock |-> c + 4]

\* _autosave: updated_at, then GameSave(...) with its two timestamp
\* defaults, then upsert_active with the update's own timestamp
autosave(user_email, level_id, s, c, visited_list, collected_list) ==
    LET stamped == [s EXCEPT !.updated_at = Now(c)]
    IN  [state |-> stamped,
         saves |-> upsert_active(saves, user_email, level_id,
                       gamestate_to_dict(stamped, visited_list, collected_list),
                       Now(c + 1), Now(c + 3)),
         clock |-> c + 4]

\* sorted(state.collected_items) over the item names of the model
ItemNameOrder ==
    <<"Blue Stone", "Green Stone", "Orange Stone", "Purple Stone", "Red Stone",
      "Villain", "Yellow Stone", "p", "r1", "r2">>
sorted(S) == SelectSeq(ItemNameOrder, LAMBDA n : n \in S)

\* The GameResult built by _persist_or_finalize (lines 362-387)
GameResult(user_email, level_id, s, level, c) ==
    [user_email |-> user_email,
     level_id |-> level_id,
     status |-> s.status,
     score |-> calculate(s, level),
     moves |-> s.move_count,
     items_collected |-> Cardinality(s.collected_items),
     finished_at |-> Now(c),
     snapshot |-> [final_room |-> s.player.location,
                   inventory |-> sorted(s.collected_items),
                   encountered_villain |-> s.encountered_villain,
                   optimal_moves |-> level.optimal_moves]]

\* What a query returns: kind names the query, value is its result
Returned(kind, value) == [kind |-> kind, value |-> value]
NoReturn == Returned("none", << >>)

\* The level id of a document, None when the document has no "id"
NoId == "None"
IdOf(d) == IF "id" \in DOMAIN d THEN d.id ELSE NoId
NoBuilds == [level_id \in {"level_1", "level_2", "level_easy", NoId} |-> 0]

\* store-game before a run is started
NoStore == << >>

CallBy(user_email, op, direction, level_id, raised) ==
    [user_email |-> user_email, op |-> op, direction |-> direction,
     level_id |-> level_id, raised |-> raised]
NoCall == CallBy("", "none", "", "", "")
Call(op, direction, level_id, raised) ==
    CallBy(User, op, direction, level_id, raised)

--------------------------------------------------------------------------
(* Initial state: a definition has been chosen, nothing is built yet *)

Init ==
    /\ defn \in Definitions \cup Incomplete \cup {level_easy}
    /\ pc = "new"
    /\ error = ""
    /\ queue = << >>
    /\ visited = {}
    /\ explored = 0
    /\ levels = {}
    /\ state = NoState
    /\ saves = {}
    /\ history = << >>
    /\ clock = 0
    /\ call = NoCall
    /\ returned = NoReturn
    /\ docs = {}
    /\ builds = NoBuilds
    /\ cursor = << >>
    /\ objects = NoBuilds
    /\ memory = << >>
    /\ store = NoStore
    /\ requests = << >>

--------------------------------------------------------------------------
(* models/behavior/level_factory.py: LevelFactory.from_definition *)

\* Lines 57-110 and the first lines of compute_optimal_moves (150-153)
FromDefinition ==
    /\ pc = "new"
    /\ IF ~validate_level_definition(defn)
       THEN /\ pc' = "rejected"
            /\ error' = "LevelValidationError"
            /\ queue' = queue
       ELSE IF UnknownItemType(defn)
       THEN /\ pc' = "rejected"
            /\ error' = "ValueError"
            /\ queue' = queue
       ELSE /\ pc' = "solving"
            /\ error' = error
            /\ queue' = << <<defn.start_room, {}, 0>> >>
    /\ builds' = [builds EXCEPT ![IdOf(defn)] = @ + 1]
    /\ UNCHANGED <<defn, visited, explored, levels, state, saves, history,
                   clock, call, returned>>
    /\ UNCHANGED <<repoVars, webVars>>

\* One iteration of the while loop (lines 155-218); when the loop returns,
\* the rest of from_definition (lines 128-176) assembles the Level
SolveStep ==
    /\ pc = "solving"
    /\ queue # << >>
    /\ LET room == Head(queue)[1]
           items == Head(queue)[2]
           dist == Head(queue)[3]
           map_graph == MapGraph(defn)
           required_items == defn.rules.required_items
           picked == Pickup(map_graph, room, items, required_items)
       IN  /\ explored' = explored + 1
           /\ IF <<room, items>> \in visited
              THEN /\ queue' = PopLeft(queue)
                   /\ UNCHANGED <<visited, pc, error, levels>>
              ELSE /\ visited' = visited \cup {<<room, items>>}
                   /\ IF room \notin DOMAIN map_graph.rooms
                      THEN \* map_graph.rooms[room] raises KeyError (line 175)
                           /\ pc' = "rejected"
                           /\ error' = "KeyError"
                           /\ queue' = PopLeft(queue)
                           /\ levels' = levels
                      ELSE IF IsVillainRoom(map_graph, room)
                      THEN IF required_items \subseteq picked
                           THEN /\ queue' = PopLeft(queue)
                                /\ IF defn.difficulty \in Difficulties
                                   THEN /\ pc' = "ready"
                                        /\ error' = error
                                        /\ levels' = {l \in levels : l.id # defn.id}
                                                      \cup {Level(defn, dist)}
                                   ELSE /\ pc' = "rejected"
                                        /\ error' = "ValueError"
                                        /\ levels' = levels
                           ELSE /\ queue' = PopLeft(queue)
                                /\ UNCHANGED <<pc, error, levels>>
                      ELSE /\ queue' = PopLeft(queue)
                                       \o Expand(map_graph, room, picked, dist)
                           /\ UNCHANGED <<pc, error, levels>>
    /\ UNCHANGED <<defn, state, saves, history, clock, call, returned, builds>>
    /\ UNCHANGED <<repoVars, webVars>>

\* The loop ends with the queue empty: "Level is not solvable" (line 231)
SolveFail ==
    /\ pc = "solving"
    /\ queue = << >>
    /\ pc' = "rejected"
    /\ error' = "LevelValidationError"
    /\ UNCHANGED <<defn, queue, visited, explored, levels, state, saves,
                   history, clock, call, returned, builds>>
    /\ UNCHANGED <<repoVars, webVars>>

--------------------------------------------------------------------------
(* controllers/game.py: GameController *)

\* start_new_run (lines 109-137), with its _autosave
start_new_run(user_email, level_id) ==
    IF get(level_id) = {}
    THEN /\ call' = CallBy(user_email, "start_new_run", "", level_id, "ValueError")
         /\ UNCHANGED <<state, saves, clock>>
    ELSE LET level == CHOOSE l \in get(level_id) : TRUE
             started == GameState_start(level_id, level.start_room, clock)
             named == [started EXCEPT
                         !.message = <<"Started", level.name>>,
                         !.event_log = Append(@, <<"Started level", level.name>>)]
         IN  \E visited_list \in Lists(named.visited_rooms),
                collected_list \in Lists(named.collected_items) :
                 LET saved == autosave(user_email, level_id, named, clock + 2,
                                       visited_list, collected_list)
                 IN  /\ state' = saved.state
                     /\ saves' = saved.saves
                     /\ clock' = saved.clock
                     /\ call' = CallBy(user_email, "start_new_run", "", level_id, "")

\* The session of the application's user is started once the level is built
StartNewRun(level_id) ==
    /\ pc = "ready"
    /\ start_new_run(User, level_id)
    /\ pc' = IF get(level_id) = {} THEN pc ELSE "playing"
    /\ returned' = NoReturn
    /\ UNCHANGED <<defn, error, queue, visited, explored, levels, history>>
    /\ UNCHANGED <<builds, repoVars, webVars>>

\* move (lines 165-256), with _autosave or _persist_or_finalize, on the
\* GameState s the caller passes
move_on(s, user_email, level_id, direction) ==
    IF is_terminal(s.status)
    THEN /\ state' = move_terminal(s).state
         /\ call' = CallBy(user_email, "move", direction, level_id, "")
         /\ UNCHANGED <<saves, history, clock>>
    ELSE IF get(level_id) = {}
    THEN /\ call' = CallBy(user_email, "move", direction, level_id, "ValueError")
         /\ UNCHANGED <<state, saves, history, clock>>
    ELSE LET level == CHOOSE l \in get(level_id) : TRUE
             out == move_in_level(s, level, direction)
         IN  IF out.raised # ""
             THEN /\ state' = out.state
                  /\ call' = CallBy(user_email, "move", direction, level_id, out.raised)
                  /\ UNCHANGED <<saves, history, clock>>
             ELSE IF ~is_terminal(out.state.status)
             THEN \E visited_list \in Lists(out.state.visited_rooms),
                     collected_list \in Lists(out.state.collected_items) :
                      LET saved == autosave(user_email, level_id, out.state, clock,
                                            visited_list, collected_list)
                      IN  /\ state' = saved.state
                          /\ saves' = saved.saves
                          /\ clock' = saved.clock
                          /\ history' = history
                          /\ call' = CallBy(user_email, "move", direction, level_id, "")
             ELSE LET final == [out.state EXCEPT !.updated_at = Now(clock)]
                  IN  /\ state' = final
                      /\ history' = Append(history,
                             GameResult(user_email, level_id, final, level, clock + 1))
                      /\ saves' = delete_active(saves, user_email)
                      /\ clock' = clock + 2
                      /\ call' = CallBy(user_email, "move", direction, level_id, "")

\* move called with the session's state
move(user_email, level_id, direction) ==
    move_on(state, user_email, level_id, direction)

\* A move call of the application's user.  A call on an in-progress state
\* is modelled while move_count is below MaxMoves.
Move(level_id, direction) ==
    /\ pc = "playing"
    /\ is_terminal(state.status) \/ state.move_count < MaxMoves
    /\ move(User, level_id, direction)
    /\ returned' = NoReturn
    /\ UNCHANGED <<defn, pc, error, queue, visited, explored, levels>>
    /\ UNCHANGED <<builds, repoVars, webVars>>

\* restore_run (lines 94-107) as the move_player callback uses it: the
\* session continues from the state the active save holds
RestoreRun ==
    /\ pc = "playing"
    /\ get_active(saves, User) # {}
    /\ state' = (CHOOSE save \in get_active(saves, User) : TRUE).state
    /\ UNCHANGED <<defn, pc, error, queue, visited, explored, levels, saves,
                   history, clock, call, returned, builds>>
    /\ UNCHANGED <<repoVars, webVars>>

\* get_level_projection (lines 262-275) on the session's state
GetLevelProjection(level_id) ==
    /\ pc = "playing"
    /\ IF get(level_id) = {}
       THEN /\ call' = Call("get_level_projection", "", level_id, "ValueError")
            /\ returned' = NoReturn
       ELSE LET level == CHOOSE l \in get(level_id) : TRUE
            IN  /\ call' = Call("get_level_projection", "", level_id, "")
                /\ returned' = Returned("projection", ui_projection(level, state))
    /\ UNCHANGED <<defn, pc, error, queue, visited, explored, levels, state,
                   saves, history, clock>>
    /\ UNCHANGED <<builds, repoVars, webVars>>

Next ==
    \/ FromDefinition
    \/ SolveStep
    \/ SolveFail
    \/ \E level_id \in LevelIds : StartNewRun(level_id)
    \/ \E level_id \in LevelIds, direction \in Dirs : Move(level_id, direction)
    \/ RestoreRun
    \/ \E level_id \in LevelIds : GetLevelProjection(level_id)

Spec == Init /\ [][Next]_vars

--------------------------------------------------------------------------
(* Scoring on its own.  StandardRules.check and ScoreStrategy.calculate    *)
(* are functions of a GameState and a Level; here they are applied to      *)
(* sessions on the seeded map drawn from bounded sets: every number of     *)
(* collected stones, every move count up to MaxCount, every status, every  *)
(* difficulty, with no, one or six required items, and every              *)
(* optimal_moves up to MaxOptimal as well as none.                         *)

MaxOptimal == 15
MaxCount == 26

Optima == {NoOptimum} \cup 0..MaxOptimal

\* The stones in the order rules.required_items lists them
StoneOrder ==
    <<"Blue Stone", "Yellow Stone", "Red Stone", "Purple Stone", "Green Stone",
      "Orange Stone">>

Collections == { {StoneOrder[i] : i \in 1..n} : n \in 0..Len(StoneOrder) }

\* A session in a room of the seeded map: in progress just after the step
\* into the room, or ended in the villain's room
Sessions ==
    { [GameState_start("level_easy", "Avengers Campus", 0) EXCEPT
          !.player = [location |-> x[1]],
          !.visited_rooms = {"Avengers Campus", "Time Room", x[1]},
          !.status = x[2],
          !.encountered_villain = (x[1] = "Avengers Compound"),
          !.collected_items = c,
          !.move_count = m] :
        x \in {<<"Time Room", IN_PROGRESS>>, <<"Avengers Compound", IN_PROGRESS>>,
                <<"Avengers Compound", COMPLETED>>,
                <<"Avengers Compound", GAME_OVER>>},
        c \in Collections,
        m \in 0..MaxCount }

ScoreInit ==
    /\ defn \in { [level_easy EXCEPT !.difficulty = d,
                                      !.rules = [required_items |-> req]] :
                     d \in Difficulties,
                     req \in {{}, {"Orange Stone"}, Range(StoneOrder)} }
    /\ levels \in { {[Level(defn, 0) EXCEPT !.optimal_moves = o]} : o \in Optima }
    /\ state \in Sessions
    /\ pc = "scoring"
    /\ error = ""
    /\ queue = << >>
    /\ visited = {}
    /\ explored = 0
    /\ saves = {}
    /\ history = << >>
    /\ clock = 0
    /\ call = NoCall
    /\ returned = NoReturn
    /\ docs = {}
    /\ builds = NoBuilds
    /\ cursor = << >>
    /\ objects = NoBuilds
    /\ memory = << >>
    /\ store = NoStore
    /\ requests = << >>

\* level.rules.check(state, entered_room) on a session in progress
RulesCheck ==
    /\ pc = "scoring"
    /\ state.status = IN_PROGRESS
    /\ \E level \in levels :
          state' = check(level.rules.required_items, state,
                         level.map.rooms[state.player.location])
    /\ pc' = "checked"
    /\ UNCHANGED <<defn, error, queue, visited, explored, levels, saves,
                   history, clock, call, returned, builds>>
    /\ UNCHANGED <<repoVars, webVars>>

\* level.scoring.calculate(state, level), recorded in a GameResult
Score ==
    /\ pc \in {"scoring", "checked"}
    /\ \E level \in levels :
          history' = <<GameResult(User, level.id, state, level, clock)>>
    /\ pc' = "scored"
    /\ clock' = clock + 1
    /\ UNCHANGED <<defn, error, queue, visited, explored, levels, state, saves,
                   call, returned, builds>>
    /\ UNCHANGED <<repoVars, webVars>>

ScoreNext == RulesCheck \/ Score

ScoreSpec == ScoreInit /\ [][ScoreNext]_vars

--------------------------------------------------------------------------
(* The active saves of two users.  GameController and the save repository  *)
(* are called in any order, for either user, on the level built from       *)
(* BaseDefinition; the caller passes the GameState it holds.  Calls that   *)
(* read the clock are made while fewer than MaxReadings readings have      *)
(* been taken.                                                             *)

MaxReadings == 14

Users == {User, "b@test.com"}

SaveInit ==
    /\ defn = BaseDefinition
    /\ pc = "serving"
    /\ error = ""
    /\ queue = << >>
    /\ visited = {}
    /\ explored = 0
    /\ levels = {Level(BaseDefinition, 2)}
    /\ state = NoState
    /\ saves = {}
    /\ history = << >>
    /\ clock = 0
    /\ call = NoCall
    /\ returned = NoReturn
    /\ docs = {}
    /\ builds = [NoBuilds EXCEPT !["level_1"] = 1]
    /\ cursor = << >>
    /\ objects = NoBuilds
    /\ memory = << >>
    /\ store = NoStore
    /\ requests = << >>

\* the variables no call of this section touches
SaveFrame ==
    UNCHANGED <<defn, pc, error, queue, visited, explored, levels, returned,
                builds, repoVars, webVars>>

ServeStartNewRun(user_email, level_id) ==
    /\ clock < MaxReadings
    /\ start_new_run(user_email, level_id)
    /\ UNCHANGED history
    /\ SaveFrame

\* restart_run (lines 139-151): delete_active, then start_new_run
restart_run(user_email, level_id) ==
    IF get(level_id) = {}
    THEN /\ saves' = delete_active(saves, user_email)
         /\ call' = CallBy(user_email, "restart_run", "", level_id, "ValueError")
         /\ UNCHANGED <<state, clock>>
    ELSE LET level == CHOOSE l \in get(level_id) : TRUE
             started == GameState_start(level_id, level.start_room, clock)
             named == [started EXCEPT
                         !.message = <<"Started", level.name>>,
                         !.event_log = Append(@, <<"Started level", level.name>>)]
             deleted == delete_active(saves, user_email)
         IN  \E visited_list \in Lists(named.visited_rooms),
                collected_list \in Lists(named.collected_items) :
                 LET stamped == [named EXCEPT !.updated_at = Now(clock + 2)]
                 IN  /\ state' = stamped
                     /\ saves' = upsert_active(deleted, user_email, level_id,
                                     gamestate_to_dict(stamped, visited_list,
                                                       collected_list),
                                     Now(clock + 3), Now(clock + 5))
                     /\ clock' = clock + 6
                     /\ call' = CallBy(user_email, "restart_run", "", level_id, "")

ServeRestartRun(user_email, level_id) ==
    /\ clock < MaxReadings
    /\ restart_run(user_email, level_id)
    /\ UNCHANGED history
    /\ SaveFrame

\* abandon_run (lines 153-159)
ServeAbandonRun(user_email) ==
    /\ saves' = delete_active(saves, user_email)
    /\ call' = CallBy(user_email, "abandon_run", "", "", "")
    /\ UNCHANGED <<state, history, clock>>
    /\ SaveFrame

ServeMove(user_email, level_id, direction) ==
    /\ state # NoState
    /\ clock < MaxReadings
    /\ move(user_email, level_id, direction)
    /\ SaveFrame

\* restore_run (lines 94-107): the caller goes on with the saved state
ServeRestoreRun(user_email) ==
    /\ get_active(saves, user_email) # {}
    /\ state' = (CHOOSE save \in get_active(saves, user_email) : TRUE).state
    /\ call' = CallBy(user_email, "restore_run", "", "", "")
    /\ UNCHANGED <<saves, history, clock>>
    /\ SaveFrame

\* save_repo.upsert_active(GameSave(user_email, level_id, state)) called
\* directly, as the repository tests do
UpsertActive(user_email, level_id) ==
    /\ state # NoState
    /\ clock < MaxReadings
    /\ \E visited_list \in Lists(state.visited_rooms),
          collected_list \in Lists(state.collected_items) :
           saves' = upsert_active(saves, user_email, level_id,
                        gamestate_to_dict(state, visited_list, collected_list),
                        Now(clock), Now(clock + 2))
    /\ clock' = clock + 3
    /\ call' = CallBy(user_email, "upsert_active", "", level_id, "")
    /\ UNCHANGED <<state, history>>
    /\ SaveFrame

\* save_repo.delete_active(user_email) called directly
DeleteActive(user_email) ==
    /\ saves' = delete_active(saves, user_email)
    /\ call' = CallBy(user_email, "delete_active", "", "", "")
    /\ UNCHANGED <<state, history, clock>>
    /\ SaveFrame

SaveNext ==
    \/ \E user_email \in Users, level_id \in LevelIds :
          ServeStartNewRun(user_email, level_id)
    \/ \E user_email \in Users, level_id \in LevelIds :
          ServeRestartRun(user_email, level_id)
    \/ \E user_email \in Users : ServeAbandonRun(user_email)
    \/ \E user_email \in Users, direction \in Dirs :
          ServeMove(user_email, "level_1", direction)
    \/ \E user_email \in Users : ServeRestoreRun(user_email)
    \/ \E user_email \in Users, level_id \in {"level_1", "level_2"} :
          UpsertActive(user_email, level_id)
    \/ \E user_email \in Users : DeleteActive(user_email)

SaveSpec == SaveInit /\ [][SaveNext]_vars

--------------------------------------------------------------------------
(* models/repositories/level_repo.py: MongoLevelRepository.  The levels    *)
(* collection holds, for each of two ids, no document, the seeded          *)
(* document, a document whose required item is in no room, or a document   *)
(* without a villain, and possibly a document without "id".  get and the   *)
(* generator returned by list() run LevelFactory.from_definition on a      *)
(* cache miss; the variable levels is the repository's _cache.  A call     *)
(* that has to build a Level is accepted while fewer than MaxBuilds runs   *)
(* of from_definition were made.                                           *)

MaxBuilds == 3

RepoIds == {"level_1", "level_2"}

ValidDoc(level_id) == [BaseDefinition EXCEPT !.id = level_id]
UnsolvableDoc(level_id) ==
    [BaseDefinition EXCEPT !.id = level_id, !.rules.required_items = {"r2"}]
NoVillainDoc(level_id) ==
    [BaseDefinition EXCEPT !.id = level_id, !.rooms["C"].item = NoItem]
DocsOf(level_id) ==
    {ValidDoc(level_id), UnsolvableDoc(level_id), NoVillainDoc(level_id)}

LevelCollections ==
    { S \in SUBSET (UNION {DocsOf(i) : i \in RepoIds}
                      \cup {Without(BaseDefinition, "id")}) :
        \A d1, d2 \in S : IdOf(d1) = IdOf(d2) => d1 = d2 }

TotalBuilds ==
    builds["level_1"] + builds["level_2"] + builds["level_easy"] + builds[NoId]

\* A Level as a caller holds it: the value and the object it is
LevelObject(level, object) == [level |-> level, object |-> object]

RepoInit ==
    /\ docs \in LevelCollections
    /\ pc = "idle"
    /\ defn = << >>
    /\ error = ""
    /\ queue = << >>
    /\ visited = {}
    /\ explored = 0
    /\ levels = {}
    /\ state = NoState
    /\ saves = {}
    /\ history = << >>
    /\ clock = 0
    /\ call = NoCall
    /\ returned = NoReturn
    /\ builds = NoBuilds
    /\ cursor = << >>
    /\ objects = NoBuilds
    /\ memory = << >>
    /\ store = NoStore
    /\ requests = << >>

RepoFrame ==
    UNCHANGED <<state, saves, history, clock, docs, builds, memory, webVars>>

\* The call goes on into LevelFactory.from_definition(doc)
Construct(doc) ==
    /\ TotalBuilds < MaxBuilds
    /\ defn' = doc
    /\ pc' = "new"
    /\ error' = ""
    /\ queue' = << >>
    /\ visited' = {}
    /\ explored' = 0
    /\ returned' = NoReturn

\* self._cache.get(level_id) (lines 152, 196)
cache_get(level_id) == {l \in levels : l.id = level_id}

\* MongoLevelRepository.get (lines 147-186) up to the call of from_definition
Get(level_id) ==
    /\ pc = "idle"
    /\ call' = Call("get", "", level_id, "")
    /\ IF cache_get(level_id) # {}
       THEN /\ returned' = Returned("level",
                   LevelObject(CHOOSE l \in cache_get(level_id) : TRUE,
                               objects[level_id]))
            /\ UNCHANGED <<defn, pc, error, queue, visited, explored>>
       ELSE IF {doc \in docs : IdOf(doc) = level_id} = {}
       THEN /\ returned' = Returned("None", << >>)
            /\ UNCHANGED <<defn, pc, error, queue, visited, explored>>
       ELSE \E doc \in {d \in docs : IdOf(d) = level_id} : Construct(doc)
    /\ UNCHANGED <<levels, cursor, objects>>
    /\ RepoFrame

\* MongoLevelRepository.list (lines 188-206): the call only makes the
\* generator; find() yields the documents in some order
List ==
    /\ pc = "idle"
    /\ cursor' \in Lists(docs)
    /\ call' = Call("list", "", "", "")
    /\ returned' = NoReturn
    /\ UNCHANGED <<defn, pc, error, queue, visited, explored, levels, objects>>
    /\ RepoFrame

\* One next() on the generator: the loop body for the next document
ListNext ==
    /\ pc = "idle"
    /\ cursor # << >>
    /\ LET doc == Head(cursor)
           level_id == IdOf(doc)
       IN  /\ call' = Call("list", "", level_id, "")
           /\ IF cache_get(level_id) # {}
              THEN /\ returned' = Returned("level",
                          LevelObject(CHOOSE l \in cache_get(level_id) : TRUE,
                                      objects[level_id]))
                   /\ cursor' = Tail(cursor)
                   /\ UNCHANGED <<defn, pc, error, queue, visited, explored>>
              ELSE /\ Construct(doc)
                   /\ cursor' = cursor
    /\ UNCHANGED <<levels, objects>>
    /\ RepoFrame

\* from_definition returned: the Level is in the cache (lines 179, 204) and
\* is returned or yielded
Constructed ==
    /\ pc = "ready"
    /\ pc' = "idle"
    /\ objects' = [objects EXCEPT ![defn.id] = builds[defn.id]]
    /\ returned' = Returned("level",
           LevelObject(CHOOSE l \in cache_get(defn.id) : TRUE, builds[defn.id]))
    /\ cursor' = IF call.op = "list" THEN Tail(cursor) ELSE cursor
    /\ UNCHANGED <<defn, error, queue, visited, explored, levels, call>>
    /\ RepoFrame

\* from_definition raised: the exception leaves get, or ends the generator
Raised ==
    /\ pc = "rejected"
    /\ pc' = "idle"
    /\ call' = [call EXCEPT !.raised = error]
    /\ returned' = NoReturn
    /\ cursor' = IF call.op = "list" THEN << >> ELSE cursor
    /\ UNCHANGED <<defn, error, queue, visited, explored, levels, objects>>
    /\ RepoFrame

RepoNext ==
    \/ \E level_id \in RepoIds : Get(level_id)
    \/ List
    \/ ListNext
    \/ FromDefinition
    \/ SolveStep
    \/ SolveFail
    \/ Constructed
    \/ Raised

RepoSpec == RepoInit /\ [][RepoNext]_vars

--------------------------------------------------------------------------
(* models/repositories/history_repo.py: the leaderboard.  The same         *)
(* GameResults are added to an InMemoryHistoryRepository and to a          *)
(* MongoHistoryRepository: history is the list _results of the first and,  *)
(* serialized with to_dict, the game_results collection of the second.     *)
(* Up to MaxResults results of two users on two levels are added, a lost  *)
(* run with 416 points or a won one with 2250, and top_scores is asked    *)
(* for limits from 1 to MaxLimit (the application asks for 5 and 10).     *)

MaxResults == 3
MaxLimit == 2

ResultLevels == {"level_1", "level_2"}
ResultScores == {416, 2250}

\* GameResult.to_dict (models/records/game_result.py)
GameResult_to_dict(result) ==
    [user_email |-> result.user_email,
     level_id |-> result.level_id,
     status |-> StatusValue(result.status),
     score |-> result.score,
     moves |-> result.moves,
     items_collected |-> result.items_collected,
     finished_at |-> isoformat(result.finished_at),
     snapshot |-> result.snapshot]

\* GameResult.from_dict
GameResult_from_dict(data) ==
    [user_email |-> data.user_email,
     level_id |-> data.level_id,
     status |-> StatusOfValue(data.status),
     score |-> data.score,
     moves |-> data.moves,
     items_collected |-> data.items_collected,
     finished_at |-> fromisoformat(data.finished_at),
     snapshot |-> data.snapshot]

MaxScore(q) == CHOOSE m \in {q[i].score : i \in DOMAIN q} :
                  \A i \in DOMAIN q : q[i].score <= m

\* A variant of the sort that leaves the list as it is
sorted_unsorted(q) == q

\* sorted(..., key=lambda r: r.score, reverse=True): the sort is stable,
\* results with equal scores keep the order they were added in
RECURSIVE sorted_by_score(_)
sorted_by_score(q) ==
    IF q = << >> THEN << >>
    ELSE SelectSeq(q, LAMBDA r : r.score = MaxScore(q))
           \o sorted_by_score(SelectSeq(q, LAMBDA r : r.score # MaxScore(q)))

\* The slice [:limit]
slice_to(q, limit) ==
    IF limit >= 0 THEN SubSeq(q, 1, Min(limit, Len(q)))
    ELSE SubSeq(q, 1, Max(Len(q) + limit, 0))

\* InMemoryHistoryRepository.top_scores (lines 121-130)
InMemory_top_scores(results, level_id, limit) ==
    slice_to(sorted_by_score(SelectSeq(results,
                                       LAMBDA r : r.level_id = level_id)),
             limit)

\* cursor.sort("score", -1): some order of the matching documents with
\* non-increasing scores; documents with equal scores come in any order
cursor_sort(found) ==
    { [i \in DOMAIN found |-> found[order[i]]] :
        order \in { f \in [DOMAIN found -> DOMAIN found] :
                      /\ \A i, j \in DOMAIN found : i # j => f[i] # f[j]
                      /\ \A i, j \in DOMAIN found :
                            i < j => found[f[i]].score >= found[f[j]].score } }

\* cursor.limit(limit): 0 is no limit, a negative limit counts as positive
cursor_limit(q, limit) ==
    IF limit = 0 THEN q
    ELSE SubSeq(q, 1, Min(IF limit < 0 THEN -limit ELSE limit, Len(q)))

\* MongoHistoryRepository.top_scores (lines 184-205): the lists the call
\* can return
Mongo_top_scores(col, level_id, limit) ==
    { [i \in DOMAIN cursor_limit(sorted_docs, limit) |->
          GameResult_from_dict(cursor_limit(sorted_docs, limit)[i])] :
        sorted_docs \in cursor_sort(SelectSeq(col,
                                     LAMBDA doc : doc.level_id = level_id)) }

\* The game_results collection after the adds: insert_one(result.to_dict())
game_results(results) ==
    [i \in DOMAIN results |-> GameResult_to_dict(results[i])]

Leaderboard(repo, level_id, limit, results) ==
    Returned("top_scores", [repo |-> repo, level_id |-> level_id,
                            limit |-> limit, results |-> results])

HistInit ==
    /\ pc = "recording"
    /\ defn = << >>
    /\ error = ""
    /\ queue = << >>
    /\ visited = {}
    /\ explored = 0
    /\ levels = {}
    /\ state = NoState
    /\ saves = {}
    /\ history = << >>
    /\ clock = 0
    /\ call = NoCall
    /\ returned = NoReturn
    /\ docs = {}
    /\ builds = NoBuilds
    /\ cursor = << >>
    /\ objects = NoBuilds
    /\ memory = << >>
    /\ store = NoStore
    /\ requests = << >>

HistFrame ==
    UNCHANGED <<defn, pc, error, queue, visited, explored, levels, state,
                saves, call, builds, repoVars, webVars>>

\* add(result) on both repositories (lines 101-110 and 155-164)
Add(user_email, level_id, score) ==
    /\ Len(history) < MaxResults
    /\ history' = Append(history,
          [user_email |-> user_email, level_id |-> level_id,
           status |-> IF score = 2250 THEN COMPLETED ELSE GAME_OVER,
           score |-> score, moves |-> 3,
           items_collected |-> 1, finished_at |-> Now(clock),
           snapshot |-> << >>])
    /\ clock' = clock + 1
    /\ returned' = NoReturn
    /\ HistFrame

TopScoresInMemory(level_id, limit) ==
    /\ returned' = Leaderboard("memory", level_id, limit,
                               InMemory_top_scores(history, level_id, limit))
    /\ UNCHANGED <<history, clock>>
    /\ HistFrame

TopScoresMongo(level_id, limit) ==
    /\ \E results \in Mongo_top_scores(game_results(history), level_id, limit) :
          returned' = Leaderboard("mongo", level_id, limit, results)
    /\ UNCHANGED <<history, clock>>
    /\ HistFrame

HistNext ==
    \/ \E user_email \in Users, level_id \in ResultLevels,
          score \in ResultScores :
            Add(user_email, level_id, score)
    \/ \E level_id \in ResultLevels, limit \in 1..MaxLimit :
            TopScoresInMemory(level_id, limit)
    \/ \E level_id \in ResultLevels, limit \in 1..MaxLimit :
            TopScoresMongo(level_id, limit)

HistSpec == HistInit /\ [][HistNext]_vars

--------------------------------------------------------------------------
(* callbacks/game.py: move_player under a threaded server.  The browser    *)
(* sends a request per click, each carrying the store-game data of the     *)
(* moment of the click; the server handles the requests in threads that    *)
(* share the repositories.  A request reads the active save, applies       *)
(* GameController.move to its own GameState, writes the save or, for a     *)
(* terminal state, adds the result and then deletes the save, and          *)
(* answers; the answer replaces store-game.  Steps of different requests   *)
(* interleave at the repository calls.  The run is on the seeded           *)
(* three-room level or on a level whose villain is next to the start       *)
(* room; up to MaxRequests clicks are made.                                *)

MaxRequests == 2

ShortDefinition ==
    [BaseDefinition EXCEPT
        !.rooms = RoomDefs([A |-> Ex("B", NoExit), B |-> Ex("C", "A"),
                            C |-> Ex(NoExit, "B")],
                           [A |-> NoItem,
                            B |-> [type |-> "villain", name |-> "Villain"],
                            C |-> NoItem]),
        !.rules = [required_items |-> {}]]

Request(direction, game_data, at, s) ==
    [direction |-> direction, game_data |-> game_data, pc |-> at, state |-> s]

RaceInit ==
    /\ \/ defn = BaseDefinition /\ levels = {Level(BaseDefinition, 2)}
       \/ defn = ShortDefinition /\ levels = {Level(ShortDefinition, 1)}
    /\ pc = "serving"
    /\ error = ""
    /\ queue = << >>
    /\ visited = {}
    /\ explored = 0
    /\ state = NoState
    /\ saves = {}
    /\ history = << >>
    /\ clock = 0
    /\ call = NoCall
    /\ returned = NoReturn
    /\ docs = {}
    /\ builds = [NoBuilds EXCEPT !["level_1"] = 1]
    /\ cursor = << >>
    /\ objects = NoBuilds
    /\ memory = << >>
    /\ store = NoStore
    /\ requests = << >>

RaceFrame ==
    UNCHANGED <<defn, pc, error, queue, visited, explored, levels, returned,
                builds, repoVars>>

\* callbacks/main.py 254-262: the run is started and put in store-game
StartGame ==
    /\ store = NoStore
    /\ start_new_run(User, "level_1")
    /\ \E visited_list \in Lists(state'.visited_rooms),
          collected_list \in Lists(state'.collected_items) :
           store' = gamestate_to_dict(state', visited_list, collected_list)
    /\ UNCHANGED <<history, requests>>
    /\ RaceFrame

\* A click on a move button: the request leaves with the store's data
Click(direction) ==
    /\ store # NoStore
    /\ Len(requests) < MaxRequests
    /\ requests' = Append(requests, Request(direction, store, "sent", NoState))
    /\ UNCHANGED <<state, saves, history, clock, call, store>>
    /\ RaceFrame

\* Lines 265-266: restore_run, else the state the request carries
Restore(i) ==
    /\ i \in DOMAIN requests
    /\ requests[i].pc = "sent"
    /\ LET s == IF get_active(saves, User) # {}
                THEN (CHOOSE save \in get_active(saves, User) : TRUE).state
                ELSE gamestate_from_dict(requests[i].game_data)
       IN  requests' = [requests EXCEPT ![i].state = s, ![i].pc = "restored"]
    /\ UNCHANGED <<state, saves, history, clock, call, store>>
    /\ RaceFrame

\* Lines 268-273: GameController.move on the request's state, up to and
\* with its first write: the save, or the result of a finished run
Apply(i) ==
    /\ i \in DOMAIN requests
    /\ requests[i].pc = "restored"
    /\ LET s == requests[i].state
           level == CHOOSE l \in get("level_1") : TRUE
           out == move_in_level(s, level, requests[i].direction)
       IN  IF is_terminal(s.status)
           THEN /\ requests' = [requests EXCEPT
                                  ![i].state = move_terminal(s).state,
                                  ![i].pc = "moved"]
                /\ UNCHANGED <<saves, history, clock>>
           ELSE IF ~is_terminal(out.state.status)
           THEN \E visited_list \in Lists(out.state.visited_rooms),
                   collected_list \in Lists(out.state.collected_items) :
                    LET saved == autosave(User, "level_1", out.state, clock,
                                          visited_list, collected_list)
                    IN  /\ requests' = [requests EXCEPT
                                          ![i].state = saved.state,
                                          ![i].pc = "moved"]
                        /\ saves' = saved.saves
                        /\ clock' = saved.clock
                        /\ history' = history
           ELSE LET final == [out.state EXCEPT !.updated_at = Now(clock)]
                IN  /\ requests' = [requests EXCEPT ![i].state = final,
                                                    ![i].pc = "finalizing"]
                    /\ history' = Append(history,
                           GameResult(User, "level_1", final, level, clock + 1))
                    /\ clock' = clock + 2
                    /\ saves' = saves
    /\ call' = Call("move", requests[i].direction, "level_1", "")
    /\ UNCHANGED <<state, store>>
    /\ RaceFrame

\* controllers/game.py 390: delete_active after the result was added
Finalize(i) ==
    /\ i \in DOMAIN requests
    /\ requests[i].pc = "finalizing"
    /\ saves' = delete_active(saves, User)
    /\ requests' = [requests EXCEPT ![i].pc = "moved"]
    /\ UNCHANGED <<state, history, clock, call, store>>
    /\ RaceFrame

\* Line 275: the answer replaces store-game
Respond(i) ==
    /\ i \in DOMAIN requests
    /\ requests[i].pc = "moved"
    /\ \E visited_list \in Lists(requests[i].state.visited_rooms),
          collected_list \in Lists(requests[i].state.collected_items) :
           store' = gamestate_to_dict(requests[i].state, visited_list,
                                      collected_list)
    /\ requests' = [requests EXCEPT ![i].pc = "done"]
    /\ UNCHANGED <<state, saves, history, clock, call>>
    /\ RaceFrame

RaceNext ==
    \/ StartGame
    \/ \E direction \in Dirs : Click(direction)
    \/ \E i \in 1..MaxRequests : Restore(i)
    \/ \E i \in 1..MaxRequests : Apply(i)
    \/ \E i \in 1..MaxRequests : Finalize(i)
    \/ \E i \in 1..MaxRequests : Respond(i)

RaceSpec == RaceInit /\ [][RaceNext]_vars

--------------------------------------------------------------------------
(* models/repositories/save_repo.py: the two SaveRepository               *)
(* implementations side by side.  Every call is made on an                *)
(* InMemorySaveRepository (memory) and on a MongoSaveRepository (saves)   *)
(* with the same arguments.  The saves are the ones _autosave builds:     *)
(* GameSave(user_email, level_id, state) with state a GameState, here the *)
(* state of a run just started or one move into it.                       *)

\* What a call gives back: the exception it raised, or its value
Result(raised, value) == [raised |-> raised, value |-> value]

\* The GameStates the saves are made of
SavedSessions ==
    LET level == Level(BaseDefinition, 2)
        started == GameState_start("level_1", level.start_room, clock)
    IN  {started} \cup {move_in_level(started, level, d).state : d \in Dirs}

\* GameSave(user_email=..., level_id=..., state=...): the two timestamps
\* default to the time of construction
GameSave(user_email, level_id, s, c) ==
    [user_email |-> user_email, level_id |-> level_id, state |-> s,
     created_at |-> Now(c), updated_at |-> Now(c + 1)]

\* data["level_id"], data["status"], ... work on a dict; a GameState is
\* not subscriptable.  A dict holds the status by its value, a GameState
\* holds the GameStatus
IsDict(data) == data.status \notin GameStatus

\* InMemorySaveRepository.upsert_active (lines 55-56)
InMemory_upsert_active(mem, game_save) ==
    [u \in DOMAIN mem \cup {game_save.user_email} |->
        IF u = game_save.user_email THEN game_save ELSE mem[u]]

\* InMemorySaveRepository.get_active (lines 58-69)
InMemory_get_active(mem, user_email) ==
    IF user_email \notin DOMAIN mem THEN Result("", {})
    ELSE IF ~IsDict(mem[user_email].state) THEN Result("TypeError", {})
    ELSE Result("", {[user_email |-> mem[user_email].user_email,
                      level_id |-> mem[user_email].level_id,
                      state |-> gamestate_from_dict(mem[user_email].state)]})

\* InMemorySaveRepository.delete_active (lines 71-72)
InMemory_delete_active(mem, user_email) ==
    [u \in DOMAIN mem \ {user_email} |-> mem[u]]

\* MongoSaveRepository.get_active as a call result
Mongo_get_active(col, user_email) ==
    Result("", {[user_email |-> save.user_email, level_id |-> save.level_id,
                 state |-> save.state] : save \in get_active(col, user_email)})

ContractInit ==
    /\ pc = "serving"
    /\ defn = BaseDefinition
    /\ error = ""
    /\ queue = << >>
    /\ visited = {}
    /\ explored = 0
    /\ levels = {Level(BaseDefinition, 2)}
    /\ state = NoState
    /\ saves = {}
    /\ history = << >>
    /\ clock = 0
    /\ call = NoCall
    /\ returned = NoReturn
    /\ docs = {}
    /\ builds = [NoBuilds EXCEPT !["level_1"] = 1]
    /\ cursor = << >>
    /\ objects = NoBuilds
    /\ memory = << >>
    /\ store = NoStore
    /\ requests = << >>

ContractFrame ==
    UNCHANGED <<defn, pc, error, queue, visited, explored, levels, history,
                builds, docs, cursor, objects, webVars>>

\* save_repo.upsert_active(GameSave(...)) on both repositories
BothUpsert(user_email) ==
    /\ clock < MaxReadings
    /\ \E s \in SavedSessions :
        \E visited_list \in Lists(s.visited_rooms),
           collected_list \in Lists(s.collected_items) :
           LET game_save == GameSave(user_email, "level_1", s, clock + 2)
           IN  /\ state' = s
               /\ memory' = InMemory_upsert_active(memory, game_save)
               /\ saves' = upsert_active(saves, user_email, "level_1",
                               gamestate_to_dict(s, visited_list, collected_list),
                               game_save.created_at, Now(clock + 4))
    /\ clock' = clock + 5
    /\ call' = CallBy(user_email, "upsert_active", "", "level_1", "")
    /\ returned' = NoReturn
    /\ ContractFrame

\* save_repo.get_active(user_email) on both repositories
BothGet(user_email) ==
    /\ call' = CallBy(user_email, "get_active", "", "", "")
    /\ returned' = Returned("get_active",
           [memory |-> InMemory_get_active(memory, user_email),
            mongo |-> Mongo_get_active(saves, user_email)])
    /\ UNCHANGED <<state, saves, memory, clock>>
    /\ ContractFrame

\* save_repo.delete_active(user_email) on both repositories
BothDelete(user_email) ==
    /\ memory' = InMemory_delete_active(memory, user_email)
    /\ saves' = delete_active(saves, user_email)
    /\ call' = CallBy(user_email, "delete_active", "", "", "")
    /\ returned' = NoReturn
    /\ UNCHANGED <<state, clock>>
    /\ ContractFrame

ContractNext ==
    \/ \E user_email \in Users : BothUpsert(user_email)
    \/ \E user_email \in Users : BothGet(user_email)
    \/ \E user_email \in Users : BothDelete(user_email)

ContractSpec == ContractInit /\ [][ContractNext]_vars

--------------------------------------------------------------------------
(* Shorthands used by the properties *)

Terminal == {COMPLETED, GAME_OVER}
Playing == pc = "playing"

\* The step is a move call on an in-progress session that returned
MoveReturned ==
    /\ Playing
    /\ state.status = IN_PROGRESS
    /\ call'.op = "move"
    /\ call'.raised = ""

\* The exit the move of this step asks for, read from the definition
AskedExit == defn.rooms[state.player.location].exits[call'.direction]

HoldsVillain(r) == defn.rooms[r].item.type = "villain"
HoldsRelic(r) == defn.rooms[r].item.type = "relic"

Count(log, e) == Cardinality({i \in DOMAIN log : log[i] = e})
MovesInto(log, r) ==
    Cardinality({i \in DOMAIN log : Len(log[i]) = 3 /\ log[i][1] = "Moved"
                                    /\ log[i][3] = r})

--------------------------------------------------------------------------
(* C1: once the status is completed or game_over, every further move call  *)
(* changes nothing but the message, which becomes "Game already ended.":   *)
(* location, move_count, status, every other field, the saves and the      *)
(* history stay as they are.                                               *)
C1_TerminalGuard ==
    [][ (Playing /\ state.status \in Terminal)
          => /\ call'.op = "move" =>
                   state' = [state EXCEPT !.message = <<"Game already ended.">>]
             /\ call'.op # "move" => state' = state
             /\ saves' = saves
             /\ history' = history ]_vars

C1_Witness ==
    /\ Playing
    /\ state.status \in Terminal
    /\ call.op = "move"
    /\ state.message = <<"Game already ended.">>

(* C2: a successful move into the villain's room makes the status          *)
(* completed iff the collected items include every required item, and      *)
(* game_over otherwise; a move into another room and a blocked move leave  *)
(* it in_progress.                                                         *)
C2_VillainDecides ==
    [][ MoveReturned =>
          IF AskedExit # NoExit /\ HoldsVillain(AskedExit)
          THEN IF defn.rules.required_items \subseteq state'.collected_items
               THEN state'.status = COMPLETED
               ELSE state'.status = GAME_OVER
          ELSE state'.status = IN_PROGRESS ]_vars

C2_Witness ==
    /\ Playing
    /\ state.status = COMPLETED
    /\ defn.rules.required_items # {}
    /\ HoldsVillain(state.player.location)

(* C3: every move call on an in-progress session that returns, blocked or  *)
(* successful, adds exactly 1 to move_count; no step ever lowers it.       *)
C3_MoveCount ==
    [][ /\ MoveReturned => state'.move_count = state.move_count + 1
        /\ state'.move_count >= state.move_count ]_vars

C3_Witness ==
    /\ Playing
    /\ state.move_count = 3
    /\ Count(state.event_log, <<"Bumped into a wall">>) >= 1
    /\ \E r \in DOMAIN defn.rooms : MovesInto(state.event_log, r) >= 1

(* C4: a move in a direction the current room has no exit for adds 1 to    *)
(* move_count and appends "Bumped into a wall"; location, visited rooms,   *)
(* collected items, the villain flag and the status are unchanged.         *)
C4_BlockedMove ==
    [][ (MoveReturned /\ AskedExit = NoExit)
          => /\ state'.move_count = state.move_count + 1
             /\ state'.event_log = Append(state.event_log, <<"Bumped into a wall">>)
             /\ state'.player = state.player
             /\ state'.visited_rooms = state.visited_rooms
             /\ state'.collected_items = state.collected_items
             /\ state'.encountered_villain = state.encountered_villain
             /\ state'.status = state.status ]_vars

C4_Witness ==
    /\ Playing
    /\ call.op = "move" /\ call.raised = ""
    /\ Len(state.event_log) >= 2
    /\ state.event_log[Len(state.event_log)] = <<"Bumped into a wall">>
    /\ state.collected_items # {}

(* C5: entering a relic room whose relic is already collected leaves       *)
(* collected_items unchanged and appends only the "Moved" event, so the    *)
(* event log never holds two "Collected X" entries for one relic X; and    *)
(* encountered_villain, once true, stays true.                             *)
RelicNames == {d.name : d \in {i \in ItemDefs : i.type = "relic"}}

C5_Idempotence ==
    /\ [](Playing => \A x \in RelicNames :
                        Count(state.event_log, <<"Collected", x>>) <= 1)
    /\ [][ /\ (/\ MoveReturned
               /\ AskedExit # NoExit
               /\ HoldsRelic(AskedExit)
               /\ defn.rooms[AskedExit].item.name \in state.collected_items)
              => /\ state'.collected_items = state.collected_items
                 /\ state'.event_log =
                        Append(state.event_log,
                               <<"Moved", call'.direction, AskedExit>>)
           /\ (Playing /\ state.encountered_villain)
              => state'.encountered_villain ]_vars

\* A relic room has been entered twice and its relic collected once
C5_Witness ==
    /\ Playing
    /\ \E r \in DOMAIN defn.rooms :
          /\ HoldsRelic(r)
          /\ MovesInto(state.event_log, r) >= 2
          /\ Count(state.event_log, <<"Collected", defn.rooms[r].item.name>>) = 1

(* C6: in every session state reached through start, move and a restore    *)
(* from the serialized save, visited_rooms contains the player's location, *)
(* and no step removes a room from visited_rooms.                          *)
C6_Visited ==
    /\ [](Playing => state.player.location \in state.visited_rooms)
    /\ [][Playing => state.visited_rooms \subseteq state'.visited_rooms]_vars

C6_Witness ==
    /\ Playing
    /\ Cardinality(state.visited_rooms) >= 3
    /\ state.player.location # defn.start_room

(* C7: for a session started on a built level and moved with that level's  *)
(* id, player.location is always a room of the level, and no move fails    *)
(* to resolve the current or the entered room (no KeyError).               *)
C7_ValidLocation ==
    Playing => /\ state.player.location \in DOMAIN defn.rooms
               /\ call.raised # "KeyError"

C7_Witness ==
    /\ Playing
    /\ state.move_count >= 2
    /\ MovesInto(state.event_log, state.player.location) >= 1
    /\ state.player.location # defn.start_room

(* C8: deserializing the serialized form of any reachable session state    *)
(* gives back a state equal in every field, whatever order the two sets    *)
(* are listed in.                                                          *)
C8_RoundTrip ==
    Playing =>
        \A visited_list \in Lists(state.visited_rooms),
           collected_list \in Lists(state.collected_items) :
            gamestate_from_dict(
                gamestate_to_dict(state, visited_list, collected_list)) = state

C8_Witness ==
    /\ Playing
    /\ state.status = COMPLETED
    /\ state.collected_items # {}
    /\ state.encountered_villain
    /\ state.started_at.usec = 0
    /\ state.updated_at.usec # 0
    /\ Cardinality(state.visited_rooms) >= 2

--------------------------------------------------------------------------
(* The search compute_optimal_moves is stated to perform, written as       *)
(* layers of equal distance over (room, collected required items),         *)
(* straight from the definition: the start room is entered at distance 0,  *)
(* entering a room adds the required item it holds, and nothing leads on   *)
(* from the villain's room.                                                *)

SearchEnter(d, r, items) ==
    IF d.rooms[r].item # NoItem /\ d.rooms[r].item.name \in d.rules.required_items
    THEN <<r, items \cup {d.rooms[r].item.name}>>
    ELSE <<r, items>>

SearchNext(d, layer) ==
    UNION { { SearchEnter(d, d.rooms[n[1]].exits[dir], n[2]) :
                dir \in {x \in DOMAIN d.rooms[n[1]].exits :
                            d.rooms[n[1]].exits[x] # NoExit} } :
            n \in {x \in layer : d.rooms[x[1]].item.type # "villain"} }

SearchWin(d, layer) ==
    \E n \in layer : /\ d.rooms[n[1]].item.type = "villain"
                     /\ d.rules.required_items \subseteq n[2]

RECURSIVE SearchDist(_, _, _, _)
SearchDist(d, layer, seen, k) ==
    IF SearchWin(d, layer) THEN k
    ELSE LET fresh == SearchNext(d, layer) \ seen
         IN  IF fresh = {} THEN -1
             ELSE SearchDist(d, fresh, seen \cup fresh, k + 1)

\* The smallest distance of a winning path, or -1 when there is none
ShortestWin(d) ==
    LET first == {SearchEnter(d, d.start_room, {})}
    IN  SearchDist(d, first, first, 0)

(* C9: compute_optimal_moves returns the smallest distance among the       *)
(* winning paths of the stated search, and raises "Level is not solvable"  *)
(* exactly when there is no winning path.                                  *)
C9_SolverIsShortestPath ==
    /\ pc = "ready" =>
          /\ ShortestWin(defn) >= 0
          /\ \A l \in levels : l.optimal_moves = ShortestWin(defn)
    /\ (pc = "rejected" /\ visited # {}) =>
          IF error = "LevelValidationError"
          THEN ShortestWin(defn) = -1
          ELSE ShortestWin(defn) >= 0

\* The solver has returned a distance that needed a detour for relics
C9_Witness ==
    /\ pc = "ready"
    /\ \E l \in levels : l.optimal_moves >= 3
    /\ Cardinality(defn.rules.required_items) = 2

--------------------------------------------------------------------------
(* The fewest moves of a winning session: layers of sessions that are one  *)
(* move call apart, from GameState.start, each session kept as (location,  *)
(* collected items, status), which is all a move reads of it.              *)

PlayKey(s) == <<s.player.location, s.collected_items, s.status>>

Probe(level, key) ==
    [GameState_start(level.id, key[1], 0) EXCEPT !.collected_items = key[2]]

PlayNext(level, layer) ==
    UNION { { PlayKey(move_in_level(Probe(level, k), level, dir).state) :
                dir \in DOMAIN level.map.rooms[k[1]].exits } :
            k \in {x \in layer : x[3] = IN_PROGRESS} }

RECURSIVE PlayDist(_, _, _, _)
PlayDist(level, layer, seen, k) ==
    IF \E x \in layer : x[3] = COMPLETED THEN k
    ELSE LET fresh == PlayNext(level, layer) \ seen
         IN  IF fresh = {} THEN -1
             ELSE PlayDist(level, fresh, seen \cup fresh, k + 1)

\* The smallest move_count of a completed session, or -1 when none exists
MinWinMoves(level) ==
    LET first == {PlayKey(GameState_start(level.id, level.start_room, 0))}
    IN  PlayDist(level, first, first, 0)

(* C10: for every level the factory builds, optimal_moves is the smallest  *)
(* move_count of any session that starts at the start room and reaches     *)
(* status completed through move calls.                                    *)
C10_OptimalIsFewestMoves ==
    pc = "ready" => \A l \in levels : l.optimal_moves = MinWinMoves(l)

(* C11: every level the factory returns can be won in play: some finite    *)
(* sequence of move calls from GameState.start at the start room ends      *)
(* with status completed.                                                  *)
C11_BuiltLevelIsWinnable ==
    pc = "ready" => \A l \in levels : MinWinMoves(l) >= 0

--------------------------------------------------------------------------
(* What the specification calls a structurally valid definition, written   *)
(* from its wording: the required top-level fields, an existing start      *)
(* room, exits that stay inside the room set, a coordinate entry for       *)
(* every room, and exactly one room with a villain item.                   *)

TopLevelFields ==
    {"id", "name", "difficulty", "start_room", "rooms", "coords", "rules"}

ExitTargets(d) ==
    UNION { {d.rooms[r].exits[x] : x \in DOMAIN d.rooms[r].exits} \ {NoExit} :
            r \in DOMAIN d.rooms }

VillainRooms(d) == {r \in DOMAIN d.rooms : d.rooms[r].item.type = "villain"}

WellFormed(d) ==
    /\ TopLevelFields \subseteq DOMAIN d
    /\ d.start_room \in DOMAIN d.rooms
    /\ ExitTargets(d) \subseteq DOMAIN d.rooms
    /\ DOMAIN d.rooms \subseteq DOMAIN d.coords
    /\ Cardinality(VillainRooms(d)) = 1

KnownKinds(d) ==
    \A r \in DOMAIN d.rooms : d.rooms[r].item.type \in {"none", "relic", "villain"}

\* Some sequence of move calls from the start room reaches completed
SolvableInPlay(d) == MinWinMoves(Level(d, 0)) >= 0

(* C12: from_definition succeeds for every structurally valid definition   *)
(* with known item kinds and a valid difficulty that is solvable in play;  *)
(* it never rejects such a definition.                                     *)
C12_SolvableInPlayIsBuilt ==
    pc = "rejected" =>
        ~ (/\ WellFormed(defn)
           /\ KnownKinds(defn)
           /\ defn.difficulty \in {"easy", "medium", "hard"}
           /\ SolvableInPlay(defn))

(* C13: validate_level_definition accepts a definition iff the required    *)
(* top-level keys are present, the start room is a room, every exit        *)
(* target is a room, every room has a coordinate entry and exactly one     *)
(* room holds a villain; otherwise it raises LevelValidationError before   *)
(* anything is built, in particular with no villain or with two or more.   *)
RejectedByValidation ==
    pc = "rejected" /\ error = "LevelValidationError" /\ explored = 0

C13_ValidationAcceptsExactly ==
    pc # "new" => (RejectedByValidation <=> ~WellFormed(defn))

\* A definition that is complete but for a second villain has been rejected
C13_Witness ==
    /\ RejectedByValidation
    /\ TopLevelFields \subseteq DOMAIN defn
    /\ defn.start_room \in DOMAIN defn.rooms
    /\ ExitTargets(defn) \subseteq DOMAIN defn.rooms
    /\ DOMAIN defn.rooms \subseteq DOMAIN defn.coords
    /\ Cardinality(VillainRooms(defn)) = 2

(* C14: from_definition fails closed.  When it raises, no Level exists;    *)
(* a Level exists only after it has returned, and then its optimal_moves   *)
(* is a natural number, its definition is structurally valid with known    *)
(* item kinds and a valid difficulty, and its map has the definition's     *)
(* rooms with every exit leading to a room of the map.                     *)
C14_FailsClosed ==
    /\ pc \in {"new", "solving"} => levels = {}
    /\ pc = "rejected" => (levels = {} /\ error # "")
    /\ \A l \in levels :
          /\ pc \in {"ready", "playing"}
          /\ l.optimal_moves \in Nat
          /\ WellFormed(defn)
          /\ KnownKinds(defn)
          /\ l.difficulty \in {"easy", "medium", "hard"}
          /\ DOMAIN l.map.rooms = DOMAIN defn.rooms
          /\ l.start_room \in DOMAIN l.map.rooms
          /\ \A r \in DOMAIN l.map.rooms : \A x \in DOMAIN l.map.rooms[r].exits :
                l.map.rooms[r].exits[x] \in DOMAIN l.map.rooms \cup {NoExit}

\* The solver found a distance, the difficulty was then refused, and no
\* Level was returned
C14_Witness ==
    /\ pc = "rejected"
    /\ error = "ValueError"
    /\ explored > 0
    /\ levels = {}

--------------------------------------------------------------------------
(* C15, as stated: for the seeded easy level (8 rooms, 6 required relics,  *)
(* start room Avengers Campus) from_definition returns optimal_moves 7.    *)
C15_SeedOptimalIs7 ==
    (pc = "ready" /\ defn = level_easy) => \A l \in levels : l.optimal_moves = 7

(* C15, amended: for the seeded easy level from_definition returns         *)
(* optimal_moves 9; the Soul Room is a dead end off the Reality Room, so   *)
(* a route through all six relic rooms enters two rooms twice.             *)
C15_SeedOptimalIs9 ==
    (pc = "ready" /\ defn = level_easy) => \A l \in levels : l.optimal_moves = 9

C15_Witness ==
    /\ pc = "ready"
    /\ defn = level_easy
    /\ \E l \in levels : l.id = "level_easy" /\ l.start_room = "Avengers Campus"
    /\ explored > 400

--------------------------------------------------------------------------
(* C17: the progress term counts only required items, progress =           *)
(* (collected required items) / (required items), so in every reachable    *)
(* session state of a built level the progress score is at most 500, also  *)
(* when the level holds relics that are not required.                      *)
C17_ProgressCountsRequired ==
    Playing =>
        \A l \in levels :
            LET required == defn.rules.required_items
                held == state.collected_items \cap required
            IN  /\ progress_score(state, l) <= 500
                /\ progress_score(state, l) =
                       IF required = {} THEN 0
                       ELSE (500 * Cardinality(held)) \div Cardinality(required)

--------------------------------------------------------------------------
(* Scores of one session on three levels that differ in difficulty only,   *)
(* each computed by the level's own strategy                               *)

Sibling(l, d) ==
    [l EXCEPT !.difficulty = d,
              !.visibility = visibility_policy(d),
              !.scoring = scoring_strategy(d)]

ScoreOn(l, d) == calculate(state, Sibling(l, d))

--------------------------------------------------------------------------
(* C18: for a session that is not completed, StandardScore and             *)
(* MaxMovesScore both return exactly floor(500 * collected / required),    *)
(* or 0 when the level requires no items: no win bonus, no efficiency      *)
(* term.  Entering the villain's room with 5 of 6 required relics gives    *)
(* game_over, and that session scores 416.                                 *)
FiveOfSix ==
    /\ state.player.location = "Avengers Compound"
    /\ Cardinality(defn.rules.required_items) = 6
    /\ Cardinality(state.collected_items \cap defn.rules.required_items) = 5
    /\ Cardinality(state.collected_items) = 5

C18_ProgressOnly ==
    /\ (pc = "scored" /\ state.status # COMPLETED) =>
          \A l \in levels :
              LET collected == Cardinality(state.collected_items)
                  total_required == Cardinality(defn.rules.required_items)
                  expected == IF total_required = 0 THEN 0
                              ELSE (500 * collected) \div total_required
              IN  /\ history[1].score = expected
                  /\ StandardScore_calculate(state, l) = expected
                  /\ MaxMovesScore_calculate(state, l) = expected
    /\ (pc = "checked" /\ FiveOfSix) => state.status = GAME_OVER
    /\ (pc = "scored" /\ FiveOfSix /\ state.status = GAME_OVER) =>
          history[1].score = 416

\* The rules check has ended the session at the villain with 5 of 6 relics
\* and the session has been scored
C18_Witness ==
    /\ pc = "scored"
    /\ FiveOfSix
    /\ state.status = GAME_OVER
    /\ state.message = <<"You found the villain too soon.">>
    /\ state.move_count > 0
    /\ history[1].score = 416

--------------------------------------------------------------------------
(* The stated formula, in quarters: the multipliers 0.75, 1.0 and 1.25     *)
(* are 3/4, 4/4 and 5/4, so floor(1000 + p + e * multiplier) is            *)
(* (4000 + 4p + e * quarters) div 4.                                       *)

Quarters(d) == CASE d = "easy" -> 3 [] d = "medium" -> 4 [] d = "hard" -> 5

StatedProgress ==
    IF defn.rules.required_items = {} THEN 0
    ELSE (500 * Cardinality(state.collected_items))
            \div Cardinality(defn.rules.required_items)

\* floor(1000 * min(o / m, 1)) for o >= 1 and m >= 1
StatedEfficiency(o, m) == IF o >= m THEN 1000 ELSE (1000 * o) \div m

StatedFinal(e) == (4000 + 4 * StatedProgress + e * Quarters(defn.difficulty)) \div 4

--------------------------------------------------------------------------
\* StandardScore of the same session had it taken exactly optimal_moves
\* moves (with no optimum the move count is not read)
AtOptimum(l) ==
    StandardScore_calculate([state EXCEPT !.move_count = Max(l.optimal_moves, 0)], l)

(* C20: efficiency is capped and safe.  For every completed session the    *)
(* StandardScore result is at most the score of the same session with      *)
(* move_count = optimal_moves, and equals it when move_count <             *)
(* optimal_moves, when move_count is 0, and when optimal_moves is          *)
(* undefined; every input, a zero move count and a level without required  *)
(* items included, yields a score (no division by zero).                   *)
C20_EfficiencyCapped ==
    pc = "scored" =>
        \A l \in levels :
            /\ history[1].score \in Nat
            /\ StandardScore_calculate(state, l) \in Nat
            /\ state.status = COMPLETED =>
                  /\ StandardScore_calculate(state, l) <= AtOptimum(l)
                  /\ (\/ state.move_count < l.optimal_moves
                      \/ state.move_count = 0
                      \/ l.optimal_moves = NoOptimum)
                        => StandardScore_calculate(state, l) = AtOptimum(l)

\* A completed session with no moves on a level whose optimum is 5, and
\* none required: both safe defaults at once
C20_Witness ==
    /\ pc = "scored"
    /\ state.status = COMPLETED
    /\ state.move_count = 0
    /\ defn.rules.required_items = {}
    /\ defn.difficulty = "medium"
    /\ \E l \in levels : l.optimal_moves = 5
    /\ history[1].score = 2000

--------------------------------------------------------------------------
\* base - floor(base * min(overage / optimal_moves, 1) * 0.5), for o >= 1
StatedPenalized(base, o, m) == base - (base * Min(m - o, o)) \div (2 * o)

(* C21, as stated: MaxMovesScore equals StandardScore when the session is  *)
(* not completed, when optimal_moves is undefined, or when move_count <=   *)
(* optimal_moves; when the session is completed and move_count >           *)
(* optimal_moves it equals                                                 *)
(* base - floor(base * min(overage / optimal_moves, 1) * 0.5), which is    *)
(* strictly less than base and never negative.                             *)
C21_PenaltyFormula ==
    pc = "scored" =>
        \A l \in levels :
            LET base == StandardScore_calculate(state, l)
                penalized == MaxMovesScore_calculate(state, l)
                o == l.optimal_moves
                m == state.move_count
            IN  /\ l.scoring = "MaxMovesScore" => history[1].score = penalized
                /\ (\/ state.status # COMPLETED
                    \/ o = NoOptimum
                    \/ m <= o) => penalized = base
                /\ (state.status = COMPLETED /\ o >= 1 /\ m > o) =>
                      /\ penalized = StatedPenalized(base, o, m)
                      /\ penalized < base
                      /\ penalized >= 0

--------------------------------------------------------------------------
\* The last call was get_level_projection and it returned
Projected == Playing /\ call.op = "get_level_projection" /\ call.raised = ""
view == returned.value

(* C22: the visibility policy of a level is fixed by its difficulty.  Easy *)
(* projects show_full_map, show_items and show_villain all true; medium    *)
(* projects show_full_map and show_villain true and show_items false; hard *)
(* projects all three false with discovered_rooms = visited_rooms united   *)
(* with the current location; and a room is rendered (not "hidden") iff    *)
(* show_full_map or the room is in discovered_rooms.                       *)
C22_VisibilityByDifficulty ==
    Playing =>
        \A l \in levels :
            LET v == project(l, state)
            IN  /\ l.difficulty = "easy" =>
                      v.show_full_map /\ v.show_items /\ v.show_villain
                /\ l.difficulty = "medium" =>
                      v.show_full_map /\ ~v.show_items /\ v.show_villain
                /\ l.difficulty = "hard" =>
                      /\ ~v.show_full_map /\ ~v.show_items /\ ~v.show_villain
                      /\ v.discovered_rooms =
                            state.visited_rooms \cup {state.player.location}
                /\ \A r \in DOMAIN l.map.rooms :
                      can_render_room(v, r)
                          <=> (v.show_full_map \/ r \in v.discovered_rooms)
                /\ Projected =>
                      \A r \in DOMAIN l.map.rooms :
                          view.rooms[r].render # "hidden"
                              <=> (v.show_full_map \/ r \in v.discovered_rooms)

\* A hard level projected after two moves: one room still hidden, one
\* visited room rendered besides the player's
C22_Witness ==
    /\ Projected
    /\ defn.difficulty = "hard"
    /\ state.move_count >= 2
    /\ \E r1 \in DOMAIN view.rooms, r2 \in DOMAIN view.rooms :
          /\ view.rooms[r1].render = "hidden"
          /\ view.rooms[r2].render = "empty"
          /\ r2 \in state.visited_rooms

--------------------------------------------------------------------------
\* The definitions that differ from d at most in the items of their rooms:
\* every room holds nothing, a relic or a villain
SameButItems(d) ==
    { [d EXCEPT !.rooms = [r \in DOMAIN d.rooms |->
                              [exits |-> d.rooms[r].exits, item |-> f[r]]]] :
        f \in [DOMAIN d.rooms ->
                  {NoItem, [type |-> "relic", name |-> "r1"],
                   [type |-> "villain", name |-> "Villain"]}] }

(* C23: on a hard level the UI projection leaks no hidden information:     *)
(* a room is rendered "hidden" exactly when it is not in visited_rooms,    *)
(* no room is rendered "relic" or "villain", and two hard levels that      *)
(* differ only in the items their rooms hold give the same projection of   *)
(* the same session state.                                                 *)
C23_HardProjectionLeaksNothing ==
    (Projected /\ defn.difficulty = "hard") =>
        \A l \in levels :
            /\ view = ui_projection(l, state)
            /\ \A r \in DOMAIN l.map.rooms :
                  /\ view.rooms[r].render = "hidden" <=> r \notin state.visited_rooms
                  /\ view.rooms[r].render \notin {"relic", "villain"}
            /\ \A d \in SameButItems(defn) :
                  ui_projection(Level(d, l.optimal_moves), state) = view

\* The projection of a hard level whose start room holds the villain and
\* has been left: a visited room with an item the player is not in
C23_Witness ==
    /\ Projected
    /\ defn.difficulty = "hard"
    /\ \E r \in state.visited_rooms :
          /\ r # state.player.location
          /\ defn.rooms[r].item.type \in {"relic", "villain"}
          /\ defn.rooms[r].item.name \notin state.collected_items
          /\ view.rooms[r].render = "empty"
    /\ \E r \in DOMAIN defn.rooms :
          /\ defn.rooms[r].item.type # "none"
          /\ view.rooms[r].render = "hidden"

--------------------------------------------------------------------------
--------------------------------------------------------------------------
\* The call of this step, whoever made it
Called(op) == call' # call /\ call'.op = op

\* The step wrote a save for the user of its call
Wrote ==
    \/ (Called("start_new_run") \/ Called("restart_run")) /\ call'.raised = ""
    \/ Called("upsert_active")
    \/ Called("move") /\ call'.raised = "" /\ state.status = IN_PROGRESS
                      /\ state'.status = IN_PROGRESS

(* C25: after any sequence of start_new_run, restart_run, move,            *)
(* abandon_run, upsert_active and delete_active each user has at most one  *)
(* active save; it is the most recently written one (a later upsert or     *)
(* restart replaces the earlier save); a restarted run begins with         *)
(* move_count 0; and delete_active or abandon_run for a user without a     *)
(* save changes nothing and raises nothing.                                *)
C25_OneActiveSave ==
    /\ [](\A u \in Users : Cardinality(Matching(saves, u)) <= 1)
    /\ [][ /\ \A u \in Users :
                 u # call'.user_email => Matching(saves', u) = Matching(saves, u)
           /\ Wrote =>
                 \A save \in get_active(saves', call'.user_email) :
                     /\ save.level_id = call'.level_id
                     /\ save.state = state'
           /\ Wrote => get_active(saves', call'.user_email) # {}
           /\ (Called("restart_run") /\ call'.raised = "") =>
                 /\ state'.move_count = 0
                 /\ \A save \in get_active(saves', call'.user_email) :
                       save.state.move_count = 0
           /\ (Called("delete_active") \/ Called("abandon_run")) =>
                 /\ call'.raised = ""
                 /\ Matching(saves', call'.user_email) = {}
                 /\ Matching(saves, call'.user_email) = {} => saves' = saves
         ]_vars

\* Both users hold a save; the first user's run was restarted after a move
\* and the second user's save was overwritten by a direct upsert
C25_Witness ==
    /\ pc = "serving"
    /\ \A u \in Users : Cardinality(Matching(saves, u)) = 1
    /\ call.op = "restart_run" /\ call.raised = "" /\ call.user_email = User
    /\ \E doc \in Matching(saves, "b@test.com") :
          /\ doc.level_id = "level_2"
          /\ doc.state.move_count = 1

\* The repository holds no level with this id
Unknown(level_id) == \A l \in levels : l.id # level_id

(* C26: for a level id the repository does not know, start_new_run, move   *)
(* on an in-progress state and get_level_projection raise ValueError, and  *)
(* the call writes no save, records no result and leaves the session       *)
(* state as it was.                                                        *)
C26_UnknownLevelRaises ==
    [][ \A level_id \in LevelIds :
          Unknown(level_id) =>
            /\ StartNewRun(level_id) =>
                  /\ call'.raised = "ValueError"
                  /\ UNCHANGED <<state, saves, history>>
            /\ \A direction \in Dirs :
                  (state.status = IN_PROGRESS /\ Move(level_id, direction)) =>
                      /\ call'.raised = "ValueError"
                      /\ UNCHANGED <<state, saves, history>>
            /\ GetLevelProjection(level_id) =>
                  /\ call'.raised = "ValueError"
                  /\ returned' = NoReturn
                  /\ UNCHANGED <<state, saves, history>>
      ]_vars

\* A move with an unknown level id was refused in the middle of a run
C26_Witness ==
    /\ Playing
    /\ call.op = "move" /\ call.level_id = "not_real"
    /\ call.raised = "ValueError"
    /\ state.status = IN_PROGRESS /\ state.move_count = 2
    /\ Matching(saves, User) # {}

(* C27: over any sequence of get and list calls on one                     *)
(* MongoLevelRepository, LevelFactory.from_definition runs at most once    *)
(* per level id, every Level returned for an id is the one object          *)
(* returned for it before, and get of an unknown id returns None and       *)
(* caches nothing.                                                         *)
C27_ConstructedOncePerId ==
    /\ [](\A level_id \in DOMAIN builds : builds[level_id] <= 1)
    /\ [][ /\ \A level_id \in RepoIds :
                 (returned'.kind = "level" /\ call'.level_id = level_id
                    /\ objects[level_id] # 0)
                   => returned'.value.object = objects[level_id]
           /\ returned'.kind = "None" => levels' = levels
         ]_vars

\* The results of a level that a returned leaderboard leaves out
Omitted(v) ==
    {history[i] : i \in {j \in DOMAIN history :
                            history[j].level_id = v.level_id}}
      \ Range(v.results)

ExitOf(level, direction) ==
    level.map.rooms[state.player.location].exits[direction]

(* C29: a move in a direction that has an exit sets player.location to     *)
(* the exit's target, adds the target to visited_rooms, appends the event  *)
(* "Moved <direction> to <room>" to the log as it was and clears the       *)
(* previous message: after the move the message is None exactly when       *)
(* neither a relic was collected by this move nor the entered room holds   *)
(* the villain.                                                            *)
C29_MoveThroughExit ==
    [][ \A level \in levels :
          (/\ Playing
           /\ state.status = IN_PROGRESS
           /\ call'.op = "move"
           /\ call'.level_id = level.id
           /\ ExitOf(level, call'.direction) # NoExit
           /\ Move(level.id, call'.direction))
          => LET direction == call'.direction
                 target == ExitOf(level, direction)
                 log == state.event_log
             IN  /\ call'.raised = ""
                 /\ state'.player.location = target
                 /\ state'.visited_rooms = state.visited_rooms \cup {target}
                 /\ Len(state'.event_log) > Len(log)
                 /\ SubSeq(state'.event_log, 1, Len(log)) = log
                 /\ state'.event_log[Len(log) + 1] = <<"Moved", direction, target>>
                 /\ (state'.message = NoMessage) <=>
                       ~ \/ state'.collected_items # state.collected_items
                         \/ level.map.rooms[target].item.kind = "Villain"
      ]_vars

\* Back in a room whose relic was collected on an earlier visit: the
\* "Collected" message of that visit is gone
C29_Witness ==
    /\ Playing
    /\ call.op = "move" /\ call.raised = ""
    /\ state.message = NoMessage
    /\ state.move_count = MaxMoves
    /\ state.event_log[Len(state.event_log)] =
          <<"Moved", call.direction, state.player.location>>
    /\ \E level \in levels :
          /\ level.map.rooms[state.player.location].item.kind = "Relic"
          /\ level.map.rooms[state.player.location].item.name
                \in state.collected_items

\* The moves of the requests applied one after the other, in the given
\* order of the requests, to the session as it was started
RECURSIVE MovedInOrder(_, _, _)
MovedInOrder(s, level, order) ==
    IF order = << >> THEN s
    ELSE MovedInOrder(IF is_terminal(s.status) THEN s
                      ELSE move_in_level(s, level,
                                         requests[Head(order)].direction).state,
                      level, Tail(order))

\* What the repositories hold is what the session s leaves behind
LeftBehind(s) ==
    IF is_terminal(s.status)
    THEN /\ get_active(saves, User) = {}
         /\ Len(history) = 1
         /\ history[1].moves = s.move_count
         /\ history[1].status = s.status
    ELSE /\ history = << >>
         /\ \E save \in get_active(saves, User) :
               /\ save.state.move_count = s.move_count
               /\ save.state.player.location = s.player.location
               /\ save.state.collected_items = s.collected_items
               /\ save.state.status = s.status

(* C30: when the move requests of a user, handled concurrently by          *)
(* move_player, have all been answered, the repositories hold what some    *)
(* serial order of the moves leaves behind: no move is missing from        *)
(* move_count and the run is in the history at most once.                  *)
C30_ConcurrentMovesSerialize ==
    (requests # << >> /\ \A i \in DOMAIN requests : requests[i].pc = "done")
      => /\ Len(history) <= 1
         /\ \E order \in Lists(DOMAIN requests), level \in levels :
               LeftBehind(MovedInOrder(state, level, order))

\* The user's active save is the session as the step leaves it
SavedAsSeen ==
    /\ get_active(saves', User) # {}
    /\ \A save \in get_active(saves', User) :
          /\ save.level_id = call'.level_id
          /\ save.state = state'

(* C31: after start_new_run and after every move that leaves the session   *)
(* in_progress, blocked or not, the user's active save holds the level id  *)
(* of the call and a state equal to the session state after the call; the  *)
(* save of an in-progress session always restores to the state the player  *)
(* last saw.                                                               *)
C31_SaveFollowsSession ==
    /\ [][ /\ (call'.op = "start_new_run" /\ call'.raised = "")
                 => SavedAsSeen
           /\ (call'.op = "move" /\ call'.raised = ""
                 /\ Playing /\ state.status = IN_PROGRESS
                 /\ state'.status = IN_PROGRESS) => SavedAsSeen
         ]_vars
    /\ []((Playing /\ state.status = IN_PROGRESS)
            => \E save \in get_active(saves, User) : save.state = state)

\* A session saved after a blocked move that followed a move into a room
C31_Witness ==
    /\ Playing
    /\ state.status = IN_PROGRESS
    /\ state.move_count = 2
    /\ state.player.location # defn.start_room
    /\ state.event_log[Len(state.event_log)] = <<"Bumped into a wall">>
    /\ state.updated_at.usec # 0
    /\ \E save \in get_active(saves, User) : save.state = state

(* C32: for every sequence of upsert_active, get_active and delete_active  *)
(* calls with saves whose state is a GameState, InMemorySaveRepository     *)
(* and MongoSaveRepository give the same results, and get_active of a      *)
(* user whose save was upserted last returns a save whose state equals     *)
(* the GameState that was upserted.                                        *)
C32_SameContract ==
    returned.kind = "get_active" =>
        /\ returned.value.memory = returned.value.mongo
        /\ (call.user_email \in DOMAIN memory) =>
              /\ returned.value.memory.raised = ""
              /\ \A save \in returned.value.memory.value :
                    save.state = memory[call.user_email].state

--------------------------------------------------------------------------
(* compute_optimal_moves as a loop that is always run to its end: the     *)
(* call is synchronous, so an enabled iteration is eventually executed    *)

SolveNext ==
    \/ FromDefinition
    \/ SolveStep
    \/ SolveFail

SolveSpec == Init /\ [][SolveNext]_vars /\ WF_vars(SolveNext)

\* The largest number of exits a room of the map has
OutDegree(map_graph) ==
    LET degrees == {Len(neighbors(map_graph, room)) :
                        room \in DOMAIN map_graph.rooms} \cup {0}
    IN  CHOOSE n \in degrees : \A m \in degrees : m <= n

\* C33: compute_optimal_moves terminates on every finite map, cycles and
\* self-loops included: a search that was started ends with a distance
\* (the level is built, or from_definition goes on to reject its
\* difficulty) or with LevelValidationError, never with another error, and
\* each (room, item set) state is explored at most once: every entry ever
\* enqueued comes from the start or from the one expansion of a visited
\* state, so pops and pending entries together never exceed
\* 1 + |visited| * (largest number of exits)
C33_SolverTerminates ==
    /\ (pc = "solving") ~> (pc \in {"ready", "rejected"})
    /\ [](pc = "rejected" => error \in {"LevelValidationError", "ValueError"})
    /\ []((explored > 0 \/ queue # << >>) =>
             explored + Len(queue)
               <= 1 + Cardinality(visited) * OutDegree(MapGraph(defn)))
    /\ [][visited' # visited =>
            /\ <<Head(queue)[1], Head(queue)[2]>> \notin visited
            /\ visited' = visited \cup {<<Head(queue)[1], Head(queue)[2]>>}
         ]_vars

\* A map with a cycle was searched to the end and rejected, after a state
\* was reached a second time and skipped
C33_Witness ==
    /\ pc = "rejected"
    /\ error = "LevelValidationError"
    /\ queue = << >>
    /\ explored > Cardinality(visited)
    /\ Cardinality(visited) > 1

RECURSIVE Pow2(_)
Pow2(n) == IF n = 0 THEN 1 ELSE 2 * Pow2(n - 1)

\* C34: every item set the solver enqueues or marks visited is a subset of
\* the declared required items, and every visited room is a room of the
\* map, so the number of distinct visited states is at most
\* |rooms| * 2^|required items|
C34_VisitedBound ==
    /\ \A i \in 1..Len(queue) : queue[i][2] \subseteq defn.rules.required_items
    /\ \A v \in visited :
         /\ v[1] \in DOMAIN defn.rooms
         /\ v[2] \subseteq defn.rules.required_items
    /\ visited # {} =>
         Cardinality(visited)
           <= Cardinality(DOMAIN defn.rooms)
                * Pow2(Cardinality(defn.rules.required_items))

\* The search went through a room holding a relic that is not required and
\* carried the required one on: both kinds of item were met
C34_Witness ==
    /\ visited # {}
    /\ defn.rules.required_items = {"r1"}
    /\ \E v \in visited :
         /\ v[2] = {"r1"}
         /\ defn.rooms[v[1]].item = [type |-> "relic", name |-> "r2"]
    /\ \E i \in 1..Len(queue) : queue[i][2] = {"r1"}

--------------------------------------------------------------------------
RelicRoomsOf(level) ==
    {r \in DOMAIN level.map.rooms :
        /\ level.map.rooms[r].item # NoneItem
        /\ level.map.rooms[r].item.render_key = "relic"}

VillainRoomsOf(level) ==
    {r \in DOMAIN level.map.rooms : IsVillainRoom(level.map, r)}

\* C35 as stated: for every difficulty and every reachable session state
\* the projection has exactly one entry per room of the level and renders
\* the player's current room and no other room as "player"; on easy a
\* relic room is rendered "relic" iff its relic is not in collected_items;
\* on medium no room is rendered "relic" and the villain's room is
\* rendered "villain"
C35_ProjectionAsStated ==
    Projected =>
        \A l \in levels :
            /\ view = ui_projection(l, state)
            /\ DOMAIN view.rooms = DOMAIN l.map.rooms
            /\ \A r \in DOMAIN l.map.rooms :
                  view.rooms[r].render = "player" <=> r = state.player.location
            /\ l.difficulty = "easy" =>
                  \A r \in RelicRoomsOf(l) :
                     view.rooms[r].render = "relic"
                        <=> l.map.rooms[r].item.name \notin state.collected_items
            /\ l.difficulty = "medium" =>
                  /\ \A r \in DOMAIN l.map.rooms : view.rooms[r].render # "relic"
                  /\ \A r \in VillainRoomsOf(l) : view.rooms[r].render = "villain"

\* C35, amended: the projection has exactly one entry per room of the
\* level and renders the player's current room, and no other room, as
\* "player", whatever that room holds; among the other rooms, on easy a
\* relic room is rendered "relic" iff its relic is not in collected_items,
\* and on medium no room is rendered "relic" while the villain's room is
\* rendered "villain"
C35_Projection ==
    Projected =>
        \A l \in levels :
            /\ view = ui_projection(l, state)
            /\ DOMAIN view.rooms = DOMAIN l.map.rooms
            /\ \A r \in DOMAIN l.map.rooms :
                  view.rooms[r].render = "player" <=> r = state.player.location
            /\ l.difficulty = "easy" =>
                  \A r \in RelicRoomsOf(l) \ {state.player.location} :
                     view.rooms[r].render = "relic"
                        <=> l.map.rooms[r].item.name \notin state.collected_items
            /\ l.difficulty = "medium" =>
                  /\ \A r \in DOMAIN l.map.rooms : view.rooms[r].render # "relic"
                  /\ \A r \in VillainRoomsOf(l) \ {state.player.location} :
                        view.rooms[r].render = "villain"

\* An easy level projected with one relic collected and its room left, and
\* another relic still lying in its room
C35_Witness ==
    /\ Projected
    /\ \E l \in levels :
         /\ l.difficulty = "easy"
         /\ \E r1 \in RelicRoomsOf(l), r2 \in RelicRoomsOf(l) :
               /\ r1 # state.player.location
               /\ l.map.rooms[r1].item.name \in state.collected_items
               /\ view.rooms[r1].render = "empty"
               /\ view.rooms[r2].render = "relic"

\* A medium level projected with relics lying in rooms and the villain's
\* room not entered
C35_MediumReached ==
    /\ Projected
    /\ \E l \in levels :
         /\ l.difficulty = "medium"
         /\ RelicRoomsOf(l) \ {state.player.location} # {}
         /\ \E r \in VillainRoomsOf(l) : view.rooms[r].render = "villain"

--------------------------------------------------------------------------
\* C36: in every session state reachable through start_new_run and move,
\* encountered_villain is true iff the status is completed or game_over,
\* and the flag and the status change in the same move
C36_VillainIffTerminal ==
    /\ [](Playing => (state.encountered_villain <=> state.status \in Terminal))
    /\ [][Playing =>
            ((state'.encountered_villain # state.encountered_villain)
               <=> (state'.status # state.status))]_vars

\* A run that ended in the villain's room
C36_Witness ==
    /\ Playing
    /\ call.op = "move"
    /\ state.encountered_villain
    /\ state.status \in Terminal
    /\ state.move_count > 0

--------------------------------------------------------------------------
\* C37: with moves issued one after another the run is finalized at most
\* once: the history changes only by the move that takes the session from
\* in progress to completed or game_over, which appends one result; a
\* move on the ended session adds no result and writes no save; the user
\* has no active save while the session is ended; the history only grows
C37_FinalizedOnce ==
    /\ [][ \/ history' = history
           \/ /\ Playing
              /\ state.status = IN_PROGRESS
              /\ state'.status \in Terminal
              /\ call'.op = "move"
              /\ Len(history') = Len(history) + 1
              /\ SubSeq(history', 1, Len(history)) = history
         ]_vars
    /\ [][(Playing /\ state.status \in Terminal /\ state'.status \in Terminal)
            => (history' = history /\ saves' = saves)]_vars
    /\ []((Playing /\ state.status \in Terminal)
            => get_active(saves, User) = {})

\* A move was made on a session that had ended, after its one result was
\* recorded
C37_Witness ==
    /\ Playing
    /\ state.status \in Terminal
    /\ state.message = <<"Game already ended.">>
    /\ call.op = "move"
    /\ Len(history) = 1
    /\ get_active(saves, User) = {}

--------------------------------------------------------------------------
\* The sessions that rules.check ends as game_over on the level: in the
\* villain's room without all required items
LosingRuns(level) ==
    { check(level.rules.required_items, s, level.map.rooms[s.player.location]) :
        s \in { x \in Sessions :
                  /\ x.status = IN_PROGRESS
                  /\ x.player.location = "Avengers Compound"
                  /\ ~(level.rules.required_items \subseteq x.collected_items) } }

\* The session was ended as completed by rules.check and then scored
WonAndScored ==
    /\ pc = "scored"
    /\ state.status = COMPLETED
    /\ defn.rules.required_items \subseteq state.collected_items

\* C38: on any one level every completed run scores strictly more than
\* every game_over run, whatever the move counts and whatever relics the
\* losing run collected, under the level's own scoring strategy
C38_WinBeatsLoss ==
    WonAndScored =>
        \A level \in levels :
            \A lost \in LosingRuns(level) :
                history[1].score > calculate(lost, level)

\* The same on the levels all of whose relics are required
C38_WinBeatsLossAllRequired ==
    (WonAndScored /\ defn.rules.required_items = Range(StoneOrder)) =>
        \A level \in levels :
            \A lost \in LosingRuns(level) :
                history[1].score > calculate(lost, level)

--------------------------------------------------------------------------
(* callbacks/main.py and callbacks/game.py: one user signed in from two   *)
(* browser sessions.  Each session keeps its own store-game, store-level  *)
(* and store-pending-level; the saves and the history are shared.  The    *)
(* handlers run one after another, each to its end.  Two levels are       *)
(* loaded: level_1, and level_2 on the same rooms with the villain in B.  *)
(* Handlers that read the clock run while fewer than MaxClock readings    *)
(* have been taken.                                                       *)

MaxClock == 17

SecondDefinition ==
    [ShortDefinition EXCEPT !.id = "level_2", !.name = "Level Two",
                            !.difficulty = "hard"]

Browsers == {1, 2}
PlayableIds == {"level_1", "level_2"}
NoLevel == "None"

Stores(game, level, pending) ==
    [game |-> game, level |-> level, pending |-> pending]

BrowserInit ==
    /\ defn = BaseDefinition
    /\ levels = {Level(BaseDefinition, 2), Level(SecondDefinition, 1)}
    /\ pc = "serving"
    /\ error = ""
    /\ queue = << >>
    /\ visited = {}
    /\ explored = 0
    /\ state = NoState
    /\ saves = {}
    /\ history = << >>
    /\ clock = 0
    /\ call = NoCall
    /\ returned = NoReturn
    /\ docs = {}
    /\ builds = [NoBuilds EXCEPT !["level_1"] = 1, !["level_2"] = 1]
    /\ cursor = << >>
    /\ objects = NoBuilds
    /\ memory = << >>
    /\ store = [b \in Browsers |-> Stores(NoStore, NoLevel, NoLevel)]
    /\ requests = << >>

BrowserFrame ==
    UNCHANGED <<defn, pc, error, queue, visited, explored, levels, returned,
                builds, repoVars, requests>>

\* handle_new_game (main.py 219-265): with an active run the level waits in
\* store-pending-level for the confirmation, else the run is started
HandleNewGame(b, level_id) ==
    /\ clock < MaxClock
    /\ IF get_active(saves, User) # {}
       THEN /\ store' = [store EXCEPT ![b].pending = level_id]
            /\ call' = Call("has_active_run", "", "", "")
            /\ UNCHANGED <<state, saves, clock>>
       ELSE /\ start_new_run(User, level_id)
            /\ \E visited_list \in Lists(state'.visited_rooms),
                  collected_list \in Lists(state'.collected_items) :
                   store' = [store EXCEPT ![b] =
                               Stores(gamestate_to_dict(state', visited_list,
                                                        collected_list),
                                      level_id, NoLevel)]
    /\ UNCHANGED history
    /\ BrowserFrame

\* confirm_new_game (main.py 281-300): restart_run on the pending level
ConfirmNewGame(b) ==
    /\ clock < MaxClock
    /\ store[b].pending # NoLevel
    /\ restart_run(User, store[b].pending)
    /\ \E visited_list \in Lists(state'.visited_rooms),
          collected_list \in Lists(state'.collected_items) :
           store' = [store EXCEPT
                       ![b].game = gamestate_to_dict(state', visited_list,
                                                     collected_list),
                       ![b].level = store[b].pending]
    /\ UNCHANGED history
    /\ BrowserFrame

\* move_player (game.py 243-275): the state of the active save, else the
\* one in store-game, is moved on the level store-level names
MovePlayer(b, direction) ==
    /\ clock < MaxClock
    /\ store[b].level # NoLevel
    /\ LET s == IF get_active(saves, User) # {}
                THEN (CHOOSE save \in get_active(saves, User) : TRUE).state
                ELSE gamestate_from_dict(store[b].game)
       IN  move_on(s, User, store[b].level, direction)
    /\ IF call'.raised = ""
       THEN \E visited_list \in Lists(state'.visited_rooms),
               collected_list \in Lists(state'.collected_items) :
                store' = [store EXCEPT
                            ![b].game = gamestate_to_dict(state', visited_list,
                                                          collected_list)]
       ELSE store' = store
    /\ BrowserFrame

BrowserNext ==
    \/ \E b \in Browsers, level_id \in PlayableIds : HandleNewGame(b, level_id)
    \/ \E b \in Browsers : ConfirmNewGame(b)
    \/ \E b \in Browsers, direction \in Dirs : MovePlayer(b, direction)

BrowserSpec == BrowserInit /\ [][BrowserNext]_vars

\* C39: every active save and every result the controller writes carries
\* the level id the session is bound to, level_id = state.level_id, and
\* the level GameController.move applies is the one state.level_id names,
\* for every sequence of new-game, confirm and move requests of
\* one user from two browser sessions
C39_LevelIdOfSession ==
    /\ [](\A save \in get_active(saves, User) :
             save.level_id = save.state.level_id)
    /\ [][history' # history =>
            history'[Len(history')].level_id = state'.level_id]_vars
    /\ [][(call' # call /\ call'.op = "move" /\ call'.raised = ""
             /\ state'.message # <<"Game already ended.">>)
            => call'.level_id = state'.level_id]_vars

====
